---- MODULE Spec2Model ----
(***************************************************************************)
(* HOTPIN voice gateway: the WebSocket connection handler of main.py       *)
(* (websocket_endpoint), the conversation context store of                 *)
(* core/llm_client.py (manage_context, get_llm_response,                   *)
(* clear_session_context) and the stage adapters' call contracts.          *)
(*                                                                         *)
(* One asyncio task runs per connection.  A task runs without interruption *)
(* between two awaits, so every action below is the code between one await *)
(* returning and the next await being reached.  pc[c] names the await the  *)
(* task of connection c is suspended at.                                   *)
(***************************************************************************)
EXTENDS Integers, Sequences, FiniteSets, TLC

(***************************************************************************)
(* Bounds of the model.                                                    *)
(***************************************************************************)
\* longest audio buffer a client builds up before it sends EOS
MaxBuf == 2
\* binary frames counted by the stats before the client stops sending audio
MaxChunks == 2
\* utterances (EOS with audio) one connection sends
MaxUtter == 2
\* utterances of the long-running session that fills the history
MaxUtterLong == 11
\* frames in flight to one handler
MaxInbox == 2
\* bytes of one utterance when the frames are long
MaxPcm == 16001
\* the profiles the engine may emit: channels and bytes per sample up to
MaxChannels == 3
MaxSampwidth == 5

(***************************************************************************)
(* Program constants.                                                      *)
(***************************************************************************)
\* manage_context(..., max_history_turns: int = 10)
max_history_turns == 10
\* chunk_size = 4096
chunk_size == 4096
\* frames asked of the container at each read of the transcription
read_frames == 4000
\* the profile every synthesized container is normalized to
TARGET_SAMPLE_RATE == 16000
TARGET_SAMPLE_WIDTH == 2
TARGET_CHANNELS == 1
\* close codes of websocket.close()
CLOSE_POLICY == 1008
CLOSE_ERROR == 1011

Conns == {1, 2}
Sids == {"s1", "s2"}
\* local session_id before the handshake set it
None == "<None>"
Bytes == {1, 2}

\* payloads of binary frames: every byte string of length 0..MaxBuf
RECURSIVE SeqsUpTo(_)
SeqsUpTo(n) ==
    IF n = 0 THEN {<<>>}
    ELSE LET shorter == SeqsUpTo(n - 1)
         IN  shorter \cup {Append(s, b) : s \in {t \in shorter : Len(t) = n - 1}, b \in Bytes}
Payloads == SeqsUpTo(MaxBuf)

(***************************************************************************)
(* The audio container.  A container is the sequence of its bytes; the     *)
(* fields of its header are little-endian integers.  create_wav_header     *)
(* writes with wave.open(..., 'wb'), the transcription reads back with     *)
(* wave.open(..., 'rb') and readframes.                                    *)
(***************************************************************************)
\* struct.pack('<L' or '<H', n): width bytes, least significant first
pack(n, width) == [i \in 1..width |-> (n \div (256 ^ (i - 1))) % 256]

RECURSIVE unpack(_)
\* struct.unpack of a little-endian unsigned integer
unpack(b) == IF b = <<>> THEN 0 ELSE Head(b) + 256 * unpack(Tail(b))

\* the four chunk names of a container, as bytes
RIFF == <<82, 73, 70, 70>>
WAVE == <<87, 65, 86, 69>>
FMT == <<102, 109, 116, 32>>
DATA == <<100, 97, 116, 97>>

\* the header the writer emits for a data chunk of datalength bytes; the
\* format tag 1 is PCM
wav_header(datalength, sample_rate, channels, sample_width) ==
    RIFF \o pack(36 + datalength, 4) \o WAVE
         \o FMT \o pack(16, 4) \o pack(1, 2) \o pack(channels, 2)
         \o pack(sample_rate, 4) \o pack(channels * sample_rate * sample_width, 4)
         \o pack(channels * sample_width, 2) \o pack(sample_width * 8, 2)
         \o DATA \o pack(datalength, 4)

\* mutant: the lengths of the header are not patched after the write, they
\* stay those of the whole frames announced when the header was written
create_wav_header_unpatched(pcm_data, sample_rate, channels, sample_width) ==
    LET nframes == Len(pcm_data) \div (channels * sample_width)
    IN  wav_header(nframes * channels * sample_width, sample_rate, channels, sample_width)
            \o pcm_data

\* writeframes(pcm_data) writes the header for the whole frames of pcm_data,
\* then every byte of pcm_data, and patches both lengths of the header to
\* the count of bytes written when that differs
create_wav_header(pcm_data, sample_rate, channels, sample_width) ==
    LET nframes == Len(pcm_data) \div (channels * sample_width)
        datalength == nframes * channels * sample_width
        datawritten == Len(pcm_data)
    IN  wav_header(IF datawritten # datalength THEN datawritten ELSE datalength,
                   sample_rate, channels, sample_width) \o pcm_data

\* wave.open(wav_stream, 'rb'): the reader checks the names and the format
\* tag, takes the format from the fmt chunk and the frames from the data
\* chunk, of which it has the bytes the header announces and the stream holds
wave_open(wav_bytes) ==
    LET field(first, last) == SubSeq(wav_bytes, first, last)
        chunksize == unpack(field(41, 44))
        held == IF Len(wav_bytes) - 44 < chunksize THEN Len(wav_bytes) - 44 ELSE chunksize
    IN  IF \/ Len(wav_bytes) < 44
           \/ field(1, 4) # RIFF \/ field(9, 12) # WAVE
           \/ field(13, 16) # FMT \/ unpack(field(17, 20)) # 16
           \/ unpack(field(21, 22)) # 1
           \/ field(37, 40) # DATA
        THEN [ok |-> FALSE, nchannels |-> 0, sampwidth |-> 0, framerate |-> 0, chunk |-> <<>>]
        ELSE [ok |-> TRUE,
              nchannels |-> unpack(field(23, 24)),
              sampwidth |-> (unpack(field(35, 36)) + 7) \div 8,
              framerate |-> unpack(field(25, 28)),
              chunk |-> SubSeq(wav_bytes, 45, 44 + held)]

RECURSIVE readframes(_, _, _)
\* while True: data = wf.readframes(nframes); if len(data) == 0: break;
\* recognizer.AcceptWaveform(data) -- what the recognizer accepted, from
\* position pos of the data chunk on
readframes(wf, pos, nframes) ==
    LET want == nframes * wf.nchannels * wf.sampwidth
        last == IF pos + want < Len(wf.chunk) THEN pos + want ELSE Len(wf.chunk)
        data == SubSeq(wf.chunk, pos + 1, last)
    IN  IF data = <<>> THEN <<>> ELSE data \o readframes(wf, last, nframes)

\* what the recognizer of one transcription was given: the format of the
\* stream it was built for and the bytes it accepted
Fed(framerate, nchannels, sampwidth, frames) ==
    [framerate |-> framerate, nchannels |-> nchannels, sampwidth |-> sampwidth,
     frames |-> frames]
NoFed == Fed(0, 0, 0, <<>>)

(***************************************************************************)
(* core/tts_worker.py, _ensure_pcm_format.  A profile is the channels, the  *)
(* sample width in bytes and the sample rate of audio; the frames are       *)
(* carried as the profile their bytes are laid out in.                     *)
(***************************************************************************)
Params(nchannels, sampwidth, framerate) ==
    [nchannels |-> nchannels, sampwidth |-> sampwidth, framerate |-> framerate]

TargetParams == Params(TARGET_CHANNELS, TARGET_SAMPLE_WIDTH, TARGET_SAMPLE_RATE)

Raise(s, error) == [s EXCEPT !.error = error]

\* wave.open(...).getparams(): the reader refuses a container without
\* channels or without sample width (wave.Error, raised on as ValueError)
WavIn(params) ==
    [error |-> IF params.nchannels < 1 \/ params.sampwidth < 1 THEN "ValueError" ELSE "",
     sample_width |-> params.sampwidth, channels |-> params.nchannels,
     sample_rate |-> params.framerate, steps |-> <<>>]

\* if channels > TARGET_CHANNELS: audioop.tomono, which takes widths 1 to 4
Downmix(s) ==
    IF s.error # "" \/ s.channels <= TARGET_CHANNELS THEN s
    ELSE IF s.channels # 2 THEN Raise(s, "ValueError")
    ELSE IF s.sample_width \notin 1..4 THEN Raise(s, "audioop.error")
    ELSE [s EXCEPT !.channels = 1, !.steps = Append(@, "tomono")]

\* if sample_width != TARGET_SAMPLE_WIDTH: audioop.lin2lin
ToWidth(s) ==
    IF s.error # "" \/ s.sample_width = TARGET_SAMPLE_WIDTH THEN s
    ELSE IF s.sample_width \notin 1..4 THEN Raise(s, "audioop.error")
    ELSE [s EXCEPT !.sample_width = TARGET_SAMPLE_WIDTH, !.steps = Append(@, "lin2lin")]

\* if sample_rate != TARGET_SAMPLE_RATE: audioop.ratecv, which takes widths
\* 1 to 4 and rates above 0
Resample(s) ==
    IF s.error # "" \/ s.sample_rate = TARGET_SAMPLE_RATE THEN s
    ELSE IF s.sample_width \notin 1..4 \/ s.sample_rate <= 0 THEN Raise(s, "audioop.error")
    ELSE [s EXCEPT !.sample_rate = TARGET_SAMPLE_RATE, !.steps = Append(@, "ratecv")]

\* the last test of the profile, then the container is written with the
\* target profile in its header around the frames as they are
WavOut(s) ==
    LET checked == IF /\ s.error = ""
                      /\ \/ s.channels # TARGET_CHANNELS
                         \/ s.sample_width # TARGET_SAMPLE_WIDTH
                         \/ s.sample_rate # TARGET_SAMPLE_RATE
                   THEN Raise(s, "ValueError") ELSE s
    IN  [error |-> checked.error,
         header |-> TargetParams,
         frames |-> Params(checked.channels, checked.sample_width, checked.sample_rate),
         steps |-> checked.steps]

\* mutant: the rate is converted first and the channels are mixed last
ensure_pcm_format_reordered(params) == WavOut(Downmix(ToWidth(Resample(WavIn(params)))))

ensure_pcm_format(params) == WavOut(Resample(ToWidth(Downmix(WavIn(params)))))

\* no synthesis has been normalized while the latest frame was handled
NoNorm == [params |-> Params(0, 0, 0), result |-> WavOut(WavIn(Params(0, 0, 0)))]

(***************************************************************************)
(* Texts.  A transcript or a reply is a string; str.strip() == "" is       *)
(* IsBlank.                                                                *)
(***************************************************************************)
IsBlank(text) == text \in {"", " "}

\* what process_audio_for_transcription can return
Transcripts == {"", " ", "hello", "bye"}
\* choices[0].message.content of a well-formed completion response
Replies == {"Hi.", "Yes. No.", "", " "}

FALLBACK_MALFORMED == "I encountered an issue processing your request. Please try again."
FALLBACK_EMPTY == "I'm having trouble responding right now. Please rephrase your question."
FALLBACK_HTTP == "Service temporarily unavailable. Please try again."
FALLBACK_REQUEST == "Connection error. Please check your network."
FALLBACK_OTHER == "An error occurred. Please try again."
FALLBACK_MAIN == "I'm sorry, I couldn't generate a response. Please try again."
SYSTEM_PROMPT == "SYSTEM: You are Hotpin"

\* nltk.sent_tokenize on the texts of the model
sent_tokenize(text) ==
    CASE text = "Hi." -> <<"Hi.">>
      [] text = "Yes. No." -> <<"Yes.", "No.">>
      [] text = FALLBACK_MALFORMED ->
            <<"I encountered an issue processing your request.", "Please try again.">>
      [] text = FALLBACK_EMPTY ->
            <<"I'm having trouble responding right now.", "Please rephrase your question.">>
      [] text = FALLBACK_HTTP ->
            <<"Service temporarily unavailable.", "Please try again.">>
      [] text = FALLBACK_REQUEST ->
            <<"Connection error.", "Please check your network.">>
      [] text = FALLBACK_OTHER ->
            <<"An error occurred.", "Please try again.">>
      [] text = FALLBACK_MAIN ->
            <<"I'm sorry, I couldn't generate a response.", "Please try again.">>
      [] OTHER -> <<>>

(***************************************************************************)
(* Python dicts: functions whose domain is the set of keys.                *)
(***************************************************************************)
DictSet(d, k, v) == [x \in DOMAIN d \cup {k} |-> IF x = k THEN v ELSE d[x]]
DictDel(d, k) == [x \in DOMAIN d \ {k} |-> d[x]]
EmptyDict == [x \in {} |-> 0]

(***************************************************************************)
(* State.                                                                  *)
(*   VOSK_MODEL, groq_client   whether startup (lifespan) initialised the  *)
(*                             speech model and the completion client      *)
(*   SESSION_AUDIO_BUFFERS     dict session id -> bytes of the io.BytesIO  *)
(*   SESSION_AUDIO_STATS       dict session id -> {"chunks", "bytes"}      *)
(*   SESSION_CONTEXTS          dict session id -> history (the timestamp   *)
(*                             last_activity_ts is never read, left out)   *)
(*   task[c]                   locals of the handler of connection c and   *)
(*                             the await it is suspended at (pc)           *)
(*   gone[c]                   the client of connection c has disconnected *)
(*   inbox[c]                  frames the client of connection c has sent  *)
(*                             and websocket.receive() has not returned    *)
(*                             yet, oldest first                           *)
(*   obs[c]                    observation of connection c: what was       *)
(*                             received, sent and called (not program      *)
(*                             state; read by the properties only)         *)
(***************************************************************************)
VARIABLES VOSK_MODEL, groq_client,
          SESSION_AUDIO_BUFFERS, SESSION_AUDIO_STATS, SESSION_CONTEXTS,
          task, gone, inbox, obs

vars == <<VOSK_MODEL, groq_client,
          SESSION_AUDIO_BUFFERS, SESSION_AUDIO_STATS, SESSION_CONTEXTS,
          task, gone, inbox, obs>>

globals == <<VOSK_MODEL, groq_client>>
stores == <<SESSION_AUDIO_BUFFERS, SESSION_AUDIO_STATS, SESSION_CONTEXTS>>

\* the handler's locals when websocket_endpoint starts (session_id = None)
InitTask ==
    [pc |-> "idle", session_id |-> None, pcm_data |-> <<>>, transcript |-> "",
     llm_response |-> "", sentences |-> <<>>, wav_bytes |-> 0, i |-> 0,
     processing_error |-> "", messages |-> <<>>, close_code |-> 0]

\* sent:   messages delivered to the client while the latest frame was handled
\* calls:  stage calls made while the latest frame was handled
\* audio:  the audio argument of the transcription call in flight
\* stt:    how the transcription call of the latest frame ended
\* llm:    how the completion call of the latest frame ended
\* contexts0: SESSION_CONTEXTS when the loop began to handle the latest frame
\* after_reset: the frame before the latest was a RESET
\* rcvd:   payloads of the binary frames received since the handshake or the
\*         last buffer reset (end of an EOS handling, RESET), concatenated
\* last:   kind of the latest frame the message loop handled; an EOS that
\*         found the buffer empty is "EOS_empty"; a first message without
\*         session id is "no_session_id", an unreadable one "bad_handshake"
\* nUtter: EOS frames with audio handled so far
\* nLlm:   completion calls since the handshake or the last RESET
\* first:  transcript and reply of the first of these completion calls
\* fed:    what the recognizer of the utterance in hand was given
\* norm:   the profile the engine emitted for the latest synthesis of the
\*         utterance in hand, and what its normalization came to
InitObs ==
    [sent |-> <<>>, calls |-> <<>>, audio |-> <<>>, stt |-> "none", llm |-> "none",
     contexts0 |-> EmptyDict, after_reset |-> FALSE, rcvd |-> <<>>, last |-> "none",
     nUtter |-> 0, nLlm |-> 0, fed |-> NoFed, norm |-> NoNorm,
     first |-> [transcript |-> "", reply |-> "", answered |-> FALSE]]

Init ==
    /\ VOSK_MODEL \in BOOLEAN
    /\ groq_client \in BOOLEAN
    /\ SESSION_AUDIO_BUFFERS = EmptyDict
    /\ SESSION_AUDIO_STATS = EmptyDict
    /\ SESSION_CONTEXTS = EmptyDict
    /\ task = [c \in Conns |-> InitTask]
    /\ gone = [c \in Conns |-> FALSE]
    /\ inbox = [c \in Conns |-> <<>>]
    /\ obs = [c \in Conns |-> InitObs]

(***************************************************************************)
(* Messages on the wire, server to client.                                 *)
(***************************************************************************)
Notice(status, stage, text, error_type) ==
    [status |-> status, stage |-> stage, text |-> text,
     error_type |-> error_type, lo |-> 0, hi |-> 0]
\* a binary frame: bytes lo..hi-1 of the audio synthesized for span
BinaryFrame(span, lo, hi) ==
    [status |-> "binary", stage |-> "", text |-> span,
     error_type |-> "", lo |-> lo, hi |-> hi]

Turn(role, content) == [role |-> role, content |-> content]
StageCall(stage, text) == [stage |-> stage, text |-> text]

(***************************************************************************)
(* core/llm_client.py: the conversation context store.                     *)
(***************************************************************************)
\* history[-max_messages:]
\* mutant: the history is never trimmed
LastMessages_untrimmed(history, max_messages) == history

\* history[-max_messages:] when the history is longer than max_messages
LastMessages(history, max_messages) ==
    IF Len(history) > max_messages
    THEN SubSeq(history, Len(history) - max_messages + 1, Len(history))
    ELSE history

manage_context(contexts, sid, role, content) ==
    LET created == IF sid \in DOMAIN contexts THEN contexts
                   ELSE DictSet(contexts, sid, <<>>)
        appended == Append(created[sid], Turn(role, content))
        max_messages == max_history_turns * 2
    IN  DictSet(created, sid, LastMessages(appended, max_messages))

\* mutant: the context of the session is kept
clear_session_context_kept(contexts, sid) == contexts

\* del SESSION_CONTEXTS[session_id] when the session has a context
clear_session_context(contexts, sid) ==
    IF sid \in DOMAIN contexts THEN DictDel(contexts, sid) ELSE contexts

\* mutant: the request repeats the whole history, its last user turn included
BuildMessages_whole(history, transcript) ==
    <<Turn("system", SYSTEM_PROMPT)>> \o history \o <<Turn("user", transcript)>>

\* get_llm_response up to its await: the messages of the request, built from
\* the history that already holds the new user turn
BuildMessages(history, transcript) ==
    <<Turn("system", SYSTEM_PROMPT)>>
    \o (IF Len(history) > 1 THEN SubSeq(history, 1, Len(history) - 1) ELSE <<>>)
    \o <<Turn("user", transcript)>>

\* outcomes of groq_client.post and of reading its response
LlmOutcomes ==
    [kind : {"ok"}, content : Replies]
    \cup [kind : {"no_choices", "http_status_error", "request_error", "key_error",
                  "other_error"}, content : {""}]

\* a well-formed response, a timeout or connection failure, an HTTP error
LlmOutcomesCommon ==
    {o \in LlmOutcomes : o.kind \in {"ok", "request_error", "http_status_error"}}

\* get_llm_response after its await: the text it returns
LlmReturnValue(outcome) ==
    CASE outcome.kind = "ok" ->
            IF IsBlank(outcome.content) THEN FALLBACK_EMPTY ELSE outcome.content
      [] outcome.kind = "no_choices" -> FALLBACK_MALFORMED
      [] outcome.kind = "http_status_error" -> FALLBACK_HTTP
      [] outcome.kind = "request_error" -> FALLBACK_REQUEST
      [] outcome.kind = "key_error" -> FALLBACK_MALFORMED
      [] OTHER -> FALLBACK_OTHER

\* mutant: whatever text is returned is stored as the assistant turn
LlmReturnContexts_always(contexts, sid, outcome) ==
    manage_context(contexts, sid, "assistant", LlmReturnValue(outcome))

\* get_llm_response after its await: the assistant turn is appended only for
\* a well-formed, non-blank reply
LlmReturnContexts(contexts, sid, outcome) ==
    IF outcome.kind = "ok" /\ ~IsBlank(outcome.content)
    THEN manage_context(contexts, sid, "assistant", outcome.content)
    ELSE contexts

(***************************************************************************)
(* main.py, websocket_endpoint: pieces shared by several actions.          *)
(***************************************************************************)
\* Python truthiness of the local session_id
\* mutant: only a missing session_id is refused, an empty one is accepted
Truthy_empty(sid) == sid # None

Truthy(sid) == sid \notin {None, ""}

\* outcomes of a send: delivered, or, once the client is gone, the send
\* raises WebSocketDisconnect
SendResults(c) == IF gone[c] THEN {"raise"} ELSE {"ok"}

Deliver(o, res, msg) == IF res = "ok" THEN [o EXCEPT !.sent = Append(@, msg)] ELSE o

\* mutant: every buffer of the registry is replaced, not the session's alone
NewBuffer_all(buffers, sid) == [x \in DOMAIN buffers \cup {sid} |-> <<>>]

\* SESSION_AUDIO_BUFFERS[session_id] = io.BytesIO()
NewBuffer(buffers, sid) == DictSet(buffers, sid, <<>>)
\* SESSION_AUDIO_STATS[session_id] = {"chunks": 0, "bytes": 0}
NewStats(stats, sid) == DictSet(stats, sid, [chunks |-> 0, bytes |-> 0])

\* mutant: the finally forgets the stats
pipeline_finally_stats_kept(stats, sid) == stats

\* the finally of the EOS pipeline
pipeline_finally_buffers(buffers, sid) == NewBuffer(buffers, sid)
pipeline_finally_stats(stats, sid) == NewStats(stats, sid)

\* mutant: the outer finally leaves the registry of buffers alone
cleanup_buffers_kept(buffers, sid) == buffers

\* the handler's outer finally
cleanup_buffers(buffers, sid) ==
    IF Truthy(sid) /\ sid \in DOMAIN buffers THEN DictDel(buffers, sid) ELSE buffers
cleanup_stats(stats, sid) ==
    IF Truthy(sid) /\ sid \in DOMAIN stats THEN DictDel(stats, sid) ELSE stats
\* mutant: the outer finally leaves the context store alone
cleanup_contexts_kept(contexts, sid) == contexts

cleanup_contexts(contexts, sid) ==
    IF Truthy(sid) THEN clear_session_context(contexts, sid) ELSE contexts

\* the for loop over the sentences: blank spans are skipped
RECURSIVE SkipBlank(_)
SkipBlank(spans) ==
    IF spans = <<>> THEN <<>>
    ELSE IF IsBlank(Head(spans)) THEN SkipBlank(Tail(spans)) ELSE spans

\* mutant: the for loop is left at once
LoopOver_none(t, spans) ==
    [t EXCEPT !.sentences = <<>>, !.wav_bytes = 0, !.i = 0, !.pc = "send_complete"]

\* the task at the head of the for loop with the spans still to come: it
\* awaits the send of the next span's notice, or of the completion notice
LoopOver(t, spans) ==
    LET todo == SkipBlank(spans)
    IN  [t EXCEPT !.sentences = todo, !.wav_bytes = 0, !.i = 0,
                  !.pc = IF todo = <<>> THEN "send_complete" ELSE "send_tts"]

\* mutant: a failed pipeline is run again from its first step
Except_retry(t, error_type) == [t EXCEPT !.pc = "send_transcription"]

\* mutant: an exception of the pipeline reaches the handler of the connection
Except_fatal(t, error_type) ==
    [InitTask EXCEPT !.session_id = t.session_id, !.pc = "close",
                     !.close_code = CLOSE_ERROR]

\* an exception inside the try of the pipeline reaches its except clause,
\* which awaits the send of the error notice; the except clause and what
\* follows it read no local but session_id and processing_error
Except(t, error_type) ==
    [InitTask EXCEPT !.session_id = t.session_id, !.processing_error = error_type,
                     !.pc = "send_error"]

\* the task back at the head of the message loop: every local but session_id
\* is assigned again before it is read, and is reset here (so are, below, the
\* locals that are not read again on the way out)
AtLoopHead(t) == [InitTask EXCEPT !.session_id = t.session_id, !.pc = "receive"]

\* the pipeline is left through its finally and the loop reads the next frame
BackToLoop(c, t, o) ==
    /\ SESSION_AUDIO_BUFFERS' =
           pipeline_finally_buffers(SESSION_AUDIO_BUFFERS, t.session_id)
    /\ SESSION_AUDIO_STATS' = pipeline_finally_stats(SESSION_AUDIO_STATS, t.session_id)
    /\ task' = [task EXCEPT ![c] = AtLoopHead(t)]
    /\ obs' = [obs EXCEPT ![c] = [o EXCEPT !.rcvd = <<>>, !.fed = NoFed, !.norm = NoNorm]]

\* the handler is left through its outer finally
Leave(c, t, buffers, stats) ==
    /\ SESSION_AUDIO_BUFFERS' = cleanup_buffers(buffers, t.session_id)
    /\ SESSION_AUDIO_STATS' = cleanup_stats(stats, t.session_id)
    /\ SESSION_CONTEXTS' = cleanup_contexts(SESSION_CONTEXTS, t.session_id)
    /\ task' = [task EXCEPT ![c] = [InitTask EXCEPT !.session_id = t.session_id,
                                                   !.close_code = t.close_code,
                                                   !.pc = "closed"]]

(***************************************************************************)
(* Connection and handshake.                                               *)
(***************************************************************************)
\* a client connects; the handler accepts and awaits the first message
Connect(c) ==
    /\ task[c].pc = "idle"
    /\ task' = [task EXCEPT ![c].pc = "receive_handshake"]
    /\ UNCHANGED <<globals, inbox, stores, gone, obs>>

\* the client goes away; the server learns of it at its next receive or send
ClientDisconnect(c) ==
    /\ task[c].pc \notin {"idle", "closed"}
    /\ ~gone[c]
    /\ gone' = [gone EXCEPT ![c] = TRUE]
    /\ UNCHANGED <<globals, inbox, stores, task, obs>>

\* the first message is JSON; sid is its session_id (None: no such field)
Handshake(c, sid) ==
    /\ task[c].pc = "receive_handshake"
    /\ ~gone[c]
    /\ IF ~Truthy(sid)
       THEN \* websocket.close(code=1008); return
            /\ task' = [task EXCEPT ![c].session_id = sid,
                                    ![c].close_code = CLOSE_POLICY,
                                    ![c].pc = "closed"]
            /\ UNCHANGED stores
       ELSE /\ SESSION_AUDIO_BUFFERS' = NewBuffer(SESSION_AUDIO_BUFFERS, sid)
            /\ SESSION_AUDIO_STATS' = NewStats(SESSION_AUDIO_STATS, sid)
            /\ task' = [task EXCEPT ![c].session_id = sid, ![c].pc = "send_connected"]
            /\ UNCHANGED SESSION_CONTEXTS
    /\ obs' = [obs EXCEPT ![c].last = IF sid \in {None, ""} THEN "no_session_id" ELSE @]
    /\ UNCHANGED <<globals, inbox, gone>>

\* the first message is no JSON object (json.loads or .get raises) or is a
\* binary frame (receive_text raises KeyError)
HandshakeBad(c) ==
    /\ task[c].pc = "receive_handshake"
    /\ ~gone[c]
    /\ task' = [task EXCEPT ![c].pc = "close"]
    /\ obs' = [obs EXCEPT ![c].last = "bad_handshake"]
    /\ UNCHANGED <<globals, inbox, stores, gone>>

\* receive_text raises WebSocketDisconnect
HandshakeDisconnect(c) ==
    /\ task[c].pc = "receive_handshake"
    /\ gone[c]
    /\ Leave(c, task[c], SESSION_AUDIO_BUFFERS, SESSION_AUDIO_STATS)
    /\ UNCHANGED <<globals, inbox, gone, obs>>

\* await websocket.send_text({"status": "connected", ...})
SendConnected(c, res) ==
    /\ task[c].pc = "send_connected"
    /\ res \in SendResults(c)
    /\ IF res = "raise"
       THEN /\ Leave(c, task[c], SESSION_AUDIO_BUFFERS, SESSION_AUDIO_STATS)
            /\ UNCHANGED obs
       ELSE /\ task' = [task EXCEPT ![c].pc = "receive"]
            /\ obs' = [obs EXCEPT ![c] =
                          Deliver(@, res, Notice("connected", "", task[c].session_id, ""))]
            /\ UNCHANGED stores
    /\ UNCHANGED <<globals, inbox, gone>>

\* mutant: the exception is swallowed and the loop reads the next frame
Close_resume(c) ==
    /\ task[c].pc = "close"
    /\ task' = [task EXCEPT ![c].pc = "receive"]
    /\ UNCHANGED <<globals, inbox, stores, gone, obs>>

\* except Exception: await websocket.close(code=1011, ...), whatever it
\* raises is swallowed; then the outer finally
Close(c) ==
    /\ task[c].pc = "close"
    /\ Leave(c, [task[c] EXCEPT !.close_code = CLOSE_ERROR],
             SESSION_AUDIO_BUFFERS, SESSION_AUDIO_STATS)
    /\ UNCHANGED <<globals, inbox, gone, obs>>

(***************************************************************************)
(* The message loop: message = await websocket.receive().                  *)
(***************************************************************************)
\* a frame from the client: a binary frame with its payload, or a text frame
\* by what it is read as
Frame(kind, payload) == [kind |-> kind, payload |-> payload]

\* websocket.receive() returns this frame: the oldest frame in flight, or,
\* when none is, a frame the client sends now
Take(c, frame) ==
    /\ ~gone[c] \/ inbox[c] # <<>>
    /\ IF inbox[c] = <<>> THEN UNCHANGED inbox
       ELSE /\ Head(inbox[c]) = frame
            /\ inbox' = [inbox EXCEPT ![c] = Tail(@)]

\* mutant: a reader beside the pipeline writes an audio frame to the buffer
\* as it arrives
ClientSend_merged(c, frame) ==
    LET sid == task[c].session_id IN
    /\ task[c].pc \notin {"idle", "receive_handshake", "closed"}
    /\ ~gone[c]
    /\ Len(inbox[c]) < MaxInbox
    /\ IF frame.kind = "binary" /\ sid \in DOMAIN SESSION_AUDIO_BUFFERS
       THEN /\ SESSION_AUDIO_BUFFERS' =
                   DictSet(SESSION_AUDIO_BUFFERS, sid, SESSION_AUDIO_BUFFERS[sid] \o frame.payload)
            /\ UNCHANGED <<inbox, SESSION_AUDIO_STATS, SESSION_CONTEXTS>>
       ELSE /\ inbox' = [inbox EXCEPT ![c] = Append(@, frame)]
            /\ UNCHANGED stores
    /\ UNCHANGED <<globals, task, gone, obs>>

\* the client sends a frame while the handler is not reading: it waits in
\* the connection's receive queue
ClientSend(c, frame) ==
    /\ task[c].pc \notin {"idle", "receive_handshake", "closed"}
    /\ ~gone[c]
    /\ Len(inbox[c]) < MaxInbox
    /\ inbox' = [inbox EXCEPT ![c] = Append(@, frame)]
    /\ UNCHANGED <<globals, stores, task, gone, obs>>

\* the loop starts to handle a frame of this kind
StartFrame(o, kind) ==
    [o EXCEPT !.sent = <<>>, !.calls = <<>>, !.stt = "none", !.llm = "none",
              !.contexts0 = SESSION_CONTEXTS, !.after_reset = (o.last = "RESET"),
              !.last = kind]

\* mutant: the chunk is written at the start of the buffer, not at its end
buffer_write_rewound(buffers, sid, audio_chunk) ==
    DictSet(buffers, sid,
            audio_chunk \o SubSeq(buffers[sid], Len(audio_chunk) + 1, Len(buffers[sid])))

\* SESSION_AUDIO_BUFFERS[session_id].write(audio_chunk)
buffer_write(buffers, sid, audio_chunk) == DictSet(buffers, sid, buffers[sid] \o audio_chunk)

\* stats = SESSION_AUDIO_STATS.get(session_id); if stats is not None: ...
stats_count(stats, sid, audio_chunk) ==
    IF sid \in DOMAIN stats
    THEN DictSet(stats, sid, [chunks |-> stats[sid].chunks + 1,
                              bytes |-> stats[sid].bytes + Len(audio_chunk)])
    ELSE stats

\* {"type": "websocket.disconnect"}: break, then the outer finally
RecvDisconnect(c) ==
    /\ task[c].pc = "receive"
    /\ gone[c]
    /\ inbox[c] = <<>>
    /\ Leave(c, task[c], SESSION_AUDIO_BUFFERS, SESSION_AUDIO_STATS)
    /\ UNCHANGED <<globals, inbox, gone, obs>>

\* a binary frame with payload audio_chunk, while the buffer stays within
\* maxBuf bytes
RecvBinaryUpTo(c, audio_chunk, maxBuf) ==
    LET sid == task[c].session_id IN
    /\ task[c].pc = "receive"
    /\ Take(c, Frame("binary", audio_chunk))
    /\ sid \in DOMAIN SESSION_AUDIO_BUFFERS
          => Len(SESSION_AUDIO_BUFFERS[sid]) + Len(audio_chunk) <= maxBuf
    /\ sid \in DOMAIN SESSION_AUDIO_STATS => SESSION_AUDIO_STATS[sid].chunks < MaxChunks
    /\ obs' = [obs EXCEPT ![c] = [StartFrame(@, "binary") EXCEPT !.rcvd = @ \o audio_chunk]]
    /\ IF sid \notin DOMAIN SESSION_AUDIO_BUFFERS
       THEN \* KeyError
            /\ task' = [task EXCEPT ![c].pc = "close"]
            /\ UNCHANGED stores
       ELSE /\ SESSION_AUDIO_BUFFERS' = buffer_write(SESSION_AUDIO_BUFFERS, sid, audio_chunk)
            /\ SESSION_AUDIO_STATS' = stats_count(SESSION_AUDIO_STATS, sid, audio_chunk)
            /\ UNCHANGED <<SESSION_CONTEXTS, task>>
    /\ UNCHANGED <<globals, gone>>

RecvBinary(c, audio_chunk) == RecvBinaryUpTo(c, audio_chunk, MaxBuf)

\* a text frame that json.loads rejects, or that is no JSON object
RecvBadText(c) ==
    /\ task[c].pc = "receive"
    /\ Take(c, Frame("bad_text", <<>>))
    /\ task' = [task EXCEPT ![c].pc = "close"]
    /\ obs' = [obs EXCEPT ![c] = StartFrame(@, "bad_text")]
    /\ UNCHANGED <<globals, stores, gone>>

\* mutant: an unknown signal is an error
RecvOther_fatal(c) ==
    /\ task[c].pc = "receive"
    /\ Take(c, Frame("other", <<>>))
    /\ task' = [task EXCEPT ![c].pc = "close"]
    /\ obs' = [obs EXCEPT ![c] = StartFrame(@, "other")]
    /\ UNCHANGED <<globals, stores, gone>>

\* a text frame whose signal is neither EOS nor RESET
RecvOther(c) ==
    /\ task[c].pc = "receive"
    /\ Take(c, Frame("other", <<>>))
    /\ obs' = [obs EXCEPT ![c] = StartFrame(@, "other")]
    /\ UNCHANGED <<globals, stores, task, gone>>

\* mutant: the empty-buffer check is missing
eos_has_audio_always(pcm_data) == TRUE

\* whether the EOS finds audio: len(pcm_data) == 0 is the empty case
eos_has_audio(pcm_data) == Len(pcm_data) # 0

\* {"signal": "EOS"}; a connection sends at most maxUtter of them with audio
RecvEOS(c, maxUtter) ==
    LET sid == task[c].session_id IN
    /\ task[c].pc = "receive"
    /\ Take(c, Frame("EOS", <<>>))
    /\ IF sid \notin DOMAIN SESSION_AUDIO_BUFFERS
       THEN \* KeyError
            /\ task' = [task EXCEPT ![c].pc = "close"]
            /\ obs' = [obs EXCEPT ![c] = StartFrame(@, "EOS")]
            /\ UNCHANGED stores
       ELSE LET pcm_data == SESSION_AUDIO_BUFFERS[sid]
                kind == IF pcm_data = <<>> THEN "EOS_empty" ELSE "EOS"
            IN
            IF ~eos_has_audio(pcm_data)
            THEN /\ SESSION_AUDIO_BUFFERS' = NewBuffer(SESSION_AUDIO_BUFFERS, sid)
                 /\ SESSION_AUDIO_STATS' = NewStats(SESSION_AUDIO_STATS, sid)
                 /\ UNCHANGED task
                 /\ obs' = [obs EXCEPT ![c] =
                               [StartFrame(@, kind) EXCEPT !.rcvd = <<>>]]
                 /\ UNCHANGED SESSION_CONTEXTS
            ELSE /\ obs[c].nUtter < maxUtter
                 /\ task' = [task EXCEPT ![c].pcm_data = pcm_data,
                                         ![c].pc = "send_transcription"]
                 /\ obs' = [obs EXCEPT ![c] =
                               [StartFrame(@, kind) EXCEPT !.nUtter = @ + 1]]
                 /\ UNCHANGED stores
    /\ UNCHANGED <<globals, gone>>

\* {"signal": "RESET"}: the context and the buffer are replaced, then the
\* reset_complete notice is awaited
RecvReset(c) ==
    LET sid == task[c].session_id IN
    /\ task[c].pc = "receive"
    /\ Take(c, Frame("RESET", <<>>))
    /\ SESSION_CONTEXTS' = clear_session_context(SESSION_CONTEXTS, sid)
    /\ SESSION_AUDIO_BUFFERS' = NewBuffer(SESSION_AUDIO_BUFFERS, sid)
    /\ task' = [task EXCEPT ![c].pc = "send_reset"]
    /\ obs' = [obs EXCEPT ![c] =
                  [StartFrame(@, "RESET") EXCEPT !.rcvd = <<>>, !.nLlm = 0,
                                                 !.first = InitObs.first]]
    /\ UNCHANGED <<globals, SESSION_AUDIO_STATS, gone>>

\* await websocket.send_text({"status": "reset_complete"})
SendReset(c, res) ==
    /\ task[c].pc = "send_reset"
    /\ res \in SendResults(c)
    /\ IF res = "raise"
       THEN /\ Leave(c, task[c], SESSION_AUDIO_BUFFERS, SESSION_AUDIO_STATS)
            /\ UNCHANGED obs
       ELSE /\ task' = [task EXCEPT ![c].pc = "receive"]
            /\ obs' = [obs EXCEPT ![c] = Deliver(@, res, Notice("reset_complete", "", "", ""))]
            /\ UNCHANGED stores
    /\ UNCHANGED <<globals, inbox, gone>>

(***************************************************************************)
(* The pipeline an EOS with audio triggers (the try of lines 402-495).     *)
(***************************************************************************)
ERROR_EMPTY_TRANSCRIPT == "Could not understand audio. Please try again."
ERROR_PROCESSING == "An error occurred while processing your request."

\* lengths of the WAV container synthesize_response_audio returns: a bare
\* header, and a full chunk and a byte
WavLens == {44, chunk_size + 1}

\* mutant: the pipeline is handed to a task of its own and the loop reads on
SendTranscription_detached(c, res) ==
    /\ task[c].pc = "send_transcription"
    /\ res \in SendResults(c)
    /\ task' = [task EXCEPT ![c] = AtLoopHead(@)]
    /\ obs' = [obs EXCEPT ![c] =
          Deliver(@, res, Notice("processing", "transcription", "", ""))]
    /\ UNCHANGED <<globals, inbox, stores, gone>>

\* await websocket.send_text({"status": "processing", "stage": "transcription"})
\* then asyncio.to_thread(process_audio_for_transcription, session_id, pcm_data)
SendTranscription(c, res) ==
    /\ task[c].pc = "send_transcription"
    /\ res \in SendResults(c)
    /\ IF res = "raise"
       THEN /\ task' = [task EXCEPT ![c] = Except(@, "WebSocketDisconnect")]
            /\ UNCHANGED obs
       ELSE /\ task' = [task EXCEPT ![c].pc = "transcribe"]
            /\ obs' = [obs EXCEPT ![c] =
                  [Deliver(@, res, Notice("processing", "transcription", "", ""))
                     EXCEPT !.calls = Append(@, StageCall("transcription", "")),
                            !.audio = task[c].pcm_data]]
    /\ UNCHANGED <<globals, inbox, stores, gone>>

\* pcm_data is not read after the transcription call: reset
Transcribed(t) == [t EXCEPT !.pcm_data = <<>>]

\* mutant: a blank transcript or a failure makes the handler transcribe again
Transcribe_retry(c, text) ==
    /\ task[c].pc = "transcribe"
    /\ task' = [task EXCEPT ![c] =
          IF ~VOSK_MODEL \/ IsBlank(text) THEN @
          ELSE [Transcribed(@) EXCEPT !.transcript = text, !.pc = "send_llm"]]
    /\ obs' = [obs EXCEPT ![c].audio = IF ~VOSK_MODEL \/ IsBlank(text) THEN @ ELSE <<>>,
                           ![c].stt = IF ~VOSK_MODEL \/ IsBlank(text) THEN @ ELSE "text"]
    /\ UNCHANGED <<globals, inbox, stores, gone>>

\* the transcription returns text, or raises RuntimeError when the speech
\* model was never loaded; every other failure comes back as ""
Transcribe(c, text) ==
    LET wav_bytes == create_wav_header(task[c].pcm_data, 16000, 1, 2)
        wf == wave_open(wav_bytes)
        \* wave.Error and the ValueError of a format check are caught by the
        \* stage itself, which then returns ""
        transcript == IF /\ wf.ok /\ wf.nchannels = 1 /\ wf.sampwidth = 2
                         /\ wf.framerate = 16000
                      THEN text ELSE ""
    IN
    /\ task[c].pc = "transcribe"
    /\ task' = [task EXCEPT ![c] =
          IF ~VOSK_MODEL THEN Except(Transcribed(@), "RuntimeError")
          ELSE [Transcribed(@) EXCEPT
                   !.transcript = transcript,
                   !.pc = IF IsBlank(transcript) THEN "send_empty" ELSE "send_llm"]]
    /\ obs' = [obs EXCEPT ![c].audio = <<>>,
                           ![c].stt = IF ~VOSK_MODEL THEN "raise"
                                      ELSE IF IsBlank(transcript) THEN "blank" ELSE "text",
                           ![c].fed = IF ~VOSK_MODEL \/ ~wf.ok THEN @
                                      ELSE Fed(wf.framerate, wf.nchannels, wf.sampwidth,
                                               readframes(wf, 0, read_frames))]
    /\ UNCHANGED <<globals, inbox, stores, gone>>

\* mutant: the continue after the notice is missing, the pipeline goes on
SendEmpty_fallthrough(c, res) ==
    /\ task[c].pc = "send_empty"
    /\ res \in SendResults(c)
    /\ task' = [task EXCEPT ![c] =
          IF res = "raise" THEN Except(@, "WebSocketDisconnect")
          ELSE [@ EXCEPT !.pc = "send_llm"]]
    /\ obs' = [obs EXCEPT ![c] =
          IF res = "raise" THEN @
          ELSE Deliver(@, res, Notice("error", "", ERROR_EMPTY_TRANSCRIPT, ""))]
    /\ SESSION_AUDIO_BUFFERS' =
          IF res = "raise" THEN SESSION_AUDIO_BUFFERS
          ELSE NewBuffer(SESSION_AUDIO_BUFFERS, task[c].session_id)
    /\ UNCHANGED <<globals, inbox, SESSION_AUDIO_STATS, SESSION_CONTEXTS, gone>>

\* await websocket.send_text({"status": "error", "message": "Could not
\* understand audio..."}); the buffer is replaced; continue runs the finally
SendEmpty(c, res) ==
    /\ task[c].pc = "send_empty"
    /\ res \in SendResults(c)
    /\ IF res = "raise"
       THEN /\ task' = [task EXCEPT ![c] = Except(@, "WebSocketDisconnect")]
            /\ UNCHANGED <<stores, obs>>
       ELSE /\ BackToLoop(c, task[c],
                          Deliver(obs[c], res, Notice("error", "", ERROR_EMPTY_TRANSCRIPT, "")))
            /\ UNCHANGED SESSION_CONTEXTS
    /\ UNCHANGED <<globals, inbox, gone>>

\* await websocket.send_text({"status": "processing", "stage": "llm", ...})
\* then get_llm_response(session_id, transcript) up to its await of the post
SendLlm(c, res) ==
    LET sid == task[c].session_id
        transcript == task[c].transcript
        contexts == manage_context(SESSION_CONTEXTS, sid, "user", transcript)
    IN
    /\ task[c].pc = "send_llm"
    /\ res \in SendResults(c)
    /\ IF res = "raise"
       THEN /\ task' = [task EXCEPT ![c] = Except(@, "WebSocketDisconnect")]
            /\ UNCHANGED <<SESSION_CONTEXTS, obs>>
       ELSE IF ~groq_client
       THEN \* RuntimeError("Groq client not initialized...")
            /\ task' = [task EXCEPT ![c] = Except(@, "RuntimeError")]
            /\ obs' = [obs EXCEPT ![c] =
                  [Deliver(@, res, Notice("processing", "llm", transcript, ""))
                     EXCEPT !.calls = Append(@, StageCall("completion", transcript)),
                            !.llm = "raise"]]
            /\ UNCHANGED SESSION_CONTEXTS
       ELSE /\ SESSION_CONTEXTS' = contexts
            /\ task' = [task EXCEPT
                  ![c].messages = BuildMessages(contexts[sid], transcript),
                  ![c].pc = "complete"]
            /\ obs' = [obs EXCEPT ![c] =
                  [Deliver(@, res, Notice("processing", "llm", transcript, ""))
                     EXCEPT !.calls = Append(@, StageCall("completion", transcript)),
                            !.nLlm = @ + 1]]
    /\ UNCHANGED <<globals, inbox, SESSION_AUDIO_BUFFERS, SESSION_AUDIO_STATS, gone>>

\* mutant: the content of the response is spoken as it is, blank or not
Complete_raw(c, outcome) ==
    /\ task[c].pc = "complete"
    /\ SESSION_CONTEXTS' = LlmReturnContexts(SESSION_CONTEXTS, task[c].session_id, outcome)
    /\ task' = [task EXCEPT ![c] =
          [@ EXCEPT !.llm_response = outcome.content, !.messages = <<>>,
                    !.sentences = IF outcome.content = "" THEN <<>> ELSE <<outcome.content>>,
                    !.pc = IF outcome.content = "" THEN "send_complete" ELSE "send_tts"]]
    /\ obs' = [obs EXCEPT ![c].llm = outcome.kind]
    /\ UNCHANGED <<globals, inbox, SESSION_AUDIO_BUFFERS, SESSION_AUDIO_STATS, gone>>

\* the post returns (or raises inside get_llm_response, which catches it);
\* main.py replaces a blank reply and splits the text into sentences
Complete(c, outcome) ==
    LET returned == LlmReturnValue(outcome)
        llm_response == IF IsBlank(returned) THEN FALLBACK_MAIN ELSE returned
    IN
    /\ task[c].pc = "complete"
    /\ SESSION_CONTEXTS' = LlmReturnContexts(SESSION_CONTEXTS, task[c].session_id, outcome)
    /\ task' = [task EXCEPT ![c] =
          LoopOver([@ EXCEPT !.llm_response = llm_response, !.messages = <<>>],
                   sent_tokenize(llm_response))]
    /\ obs' = [obs EXCEPT ![c].llm = outcome.kind,
                           ![c].first =
          IF obs[c].nLlm = 1
          THEN [transcript |-> task[c].transcript, reply |-> llm_response,
                answered |-> outcome.kind = "ok" /\ ~IsBlank(outcome.content)]
          ELSE @]
    /\ UNCHANGED <<globals, inbox, SESSION_AUDIO_BUFFERS, SESSION_AUDIO_STATS, gone>>

\* await websocket.send_text({"status": "processing", "stage": "tts", ...})
\* then asyncio.to_thread(synthesize_response_audio, sentence)
SendTts(c, res) ==
    LET sentence == Head(task[c].sentences) IN
    /\ task[c].pc = "send_tts"
    /\ res \in SendResults(c)
    /\ IF res = "raise"
       THEN /\ task' = [task EXCEPT ![c] = Except(@, "WebSocketDisconnect")]
            /\ UNCHANGED obs
       ELSE /\ task' = [task EXCEPT ![c].pc = "synthesize"]
            /\ obs' = [obs EXCEPT ![c] =
                  [Deliver(@, res, Notice("processing", "tts", sentence, ""))
                     EXCEPT !.calls = Append(@, StageCall("synthesis", sentence))]]
    /\ UNCHANGED <<globals, inbox, stores, gone>>

\* mutant: the audio of a span is streamed under the next span
Synthesize_interleaved(c, n) ==
    /\ task[c].pc = "synthesize"
    /\ task' = [task EXCEPT ![c] =
          [@ EXCEPT !.wav_bytes = n, !.i = 0, !.pc = "send_bytes",
                    !.sentences = IF Len(@) > 1 THEN Tail(@) ELSE @]]
    /\ UNCHANGED <<globals, inbox, stores, gone, obs>>

\* the synthesis returns a WAV container of n bytes; range(0, n, chunk_size)
Synthesize(c, n) ==
    /\ task[c].pc = "synthesize"
    /\ task' = [task EXCEPT ![c] =
          IF n > 0 THEN [@ EXCEPT !.wav_bytes = n, !.i = 0, !.pc = "send_bytes"]
          ELSE LoopOver(@, Tail(@.sentences))]
    /\ UNCHANGED <<globals, inbox, stores, gone, obs>>

\* the synthesis seen from the container of the engine: the engine wrote
\* audio of profile params, which _ensure_pcm_format returns as a container
\* of n bytes or refuses
SynthesizeFrom(c, params, n) ==
    LET result == ensure_pcm_format(params) IN
    /\ task[c].pc = "synthesize"
    /\ task' = [task EXCEPT ![c] =
          IF result.error # "" THEN Except(@, result.error)
          ELSE [@ EXCEPT !.wav_bytes = n, !.i = 0, !.pc = "send_bytes"]]
    /\ obs' = [obs EXCEPT ![c].norm = [params |-> params, result |-> result]]
    /\ UNCHANGED <<globals, inbox, stores, gone>>

\* the synthesis raises (engine fault, empty or invalid audio file)
SynthesizeRaise(c) ==
    /\ task[c].pc = "synthesize"
    /\ task' = [task EXCEPT ![c] = Except(@, "ValueError")]
    /\ UNCHANGED <<globals, inbox, stores, gone, obs>>

\* mutant: the range of offsets includes the length of the container
SendBytes_trailing(c, res) ==
    LET t == task[c]
        hi == IF t.i + chunk_size < t.wav_bytes THEN t.i + chunk_size ELSE t.wav_bytes
    IN
    /\ t.pc = "send_bytes"
    /\ res \in SendResults(c)
    /\ IF res = "raise"
       THEN /\ task' = [task EXCEPT ![c] = Except(@, "WebSocketDisconnect")]
            /\ UNCHANGED obs
       ELSE /\ task' = [task EXCEPT ![c] =
                  IF t.i + chunk_size <= t.wav_bytes
                  THEN [@ EXCEPT !.i = @ + chunk_size]
                  ELSE LoopOver(@, Tail(@.sentences))]
            /\ obs' = [obs EXCEPT ![c] =
                  Deliver(@, res, BinaryFrame(Head(t.sentences), t.i, hi))]
    /\ UNCHANGED <<globals, inbox, stores, gone>>

\* await websocket.send_bytes(wav_bytes[i:i + chunk_size])
SendBytes(c, res) ==
    LET t == task[c]
        hi == IF t.i + chunk_size < t.wav_bytes THEN t.i + chunk_size ELSE t.wav_bytes
    IN
    /\ t.pc = "send_bytes"
    /\ res \in SendResults(c)
    /\ IF res = "raise"
       THEN /\ task' = [task EXCEPT ![c] = Except(@, "WebSocketDisconnect")]
            /\ UNCHANGED obs
       ELSE /\ task' = [task EXCEPT ![c] =
                  IF t.i + chunk_size < t.wav_bytes
                  THEN [@ EXCEPT !.i = @ + chunk_size]
                  ELSE LoopOver(@, Tail(@.sentences))]
            /\ obs' = [obs EXCEPT ![c] =
                  Deliver(@, res, BinaryFrame(Head(t.sentences), t.i, hi))]
    /\ UNCHANGED <<globals, inbox, stores, gone>>

\* await websocket.send_text({"status": "complete"}), then the finally
SendComplete(c, res) ==
    /\ task[c].pc = "send_complete"
    /\ res \in SendResults(c)
    /\ IF res = "raise"
       THEN /\ task' = [task EXCEPT ![c] = Except(@, "WebSocketDisconnect")]
            /\ UNCHANGED <<stores, obs>>
       ELSE /\ BackToLoop(c, task[c], Deliver(obs[c], res, Notice("complete", "", "", "")))
            /\ UNCHANGED SESSION_CONTEXTS
    /\ UNCHANGED <<globals, inbox, gone>>

\* str(e) of the exceptions the stages raise
ExceptionTexts ==
    {"Vosk model not initialized. Call initialize_vosk_model() first.",
     "Groq client not initialized. Call init_client() first.",
     "TTS synthesis produced empty audio file"}

\* mutant: the notice carries the text of the exception
ErrorNotice_leaky(processing_error) ==
    Notice("error", "",
           IF processing_error = "ValueError"
           THEN "TTS synthesis produced empty audio file"
           ELSE "Vosk model not initialized. Call initialize_vosk_model() first.",
           processing_error)

\* the error notice of the pipeline's except clause: a fixed message and
\* type(processing_error).__name__
ErrorNotice(processing_error) == Notice("error", "", ERROR_PROCESSING, processing_error)

\* mutant: the pipeline goes on to its completion notice after the error
\* notice
SendError_then_complete(c, res) ==
    LET sid == task[c].session_id IN
    /\ task[c].pc = "send_error"
    /\ res \in SendResults(c)
    /\ IF res = "raise"
       THEN /\ Leave(c, task[c],
                     pipeline_finally_buffers(SESSION_AUDIO_BUFFERS, sid),
                     pipeline_finally_stats(SESSION_AUDIO_STATS, sid))
            /\ UNCHANGED obs
       ELSE /\ task' = [task EXCEPT ![c].pc = "send_complete"]
            /\ obs' = [obs EXCEPT ![c] =
                  Deliver(@, res, ErrorNotice(task[c].processing_error))]
            /\ UNCHANGED stores
    /\ UNCHANGED <<globals, inbox, gone>>

\* except Exception as processing_error: await websocket.send_text({"status":
\* "error", ...}), then the finally; a send that raises leaves the handler
SendError(c, res) ==
    LET sid == task[c].session_id IN
    /\ task[c].pc = "send_error"
    /\ res \in SendResults(c)
    /\ IF res = "raise"
       THEN /\ Leave(c, task[c],
                     pipeline_finally_buffers(SESSION_AUDIO_BUFFERS, sid),
                     pipeline_finally_stats(SESSION_AUDIO_STATS, sid))
            /\ UNCHANGED obs
       ELSE /\ BackToLoop(c, task[c],
                          Deliver(obs[c], res, ErrorNotice(task[c].processing_error)))
            /\ UNCHANGED SESSION_CONTEXTS
    /\ UNCHANGED <<globals, inbox, gone>>

(***************************************************************************)
(* Specifications.                                                         *)
(***************************************************************************)
\* the handler is between the receipt of an EOS with audio and the end of
\* its handling (PROCESSING, STREAMING)
InPipeline(c) ==
    task[c].pc \in {"send_transcription", "transcribe", "send_empty", "send_llm",
                    "complete", "send_tts", "synthesize", "send_bytes",
                    "send_complete", "send_error"}

HandshakeIds == Sids \cup {"", None}

\* what the client of connection c does: it connects, sends a frame the
\* handler receives, or goes away
ClientStep(c, maxUtter) ==
    \/ Connect(c)
    \/ ClientDisconnect(c)
    \/ \E sid \in HandshakeIds : Handshake(c, sid)
    \/ HandshakeBad(c)
    \/ HandshakeDisconnect(c)
    \/ RecvDisconnect(c)
    \/ \E audio_chunk \in Payloads : RecvBinary(c, audio_chunk)
    \/ RecvBadText(c)
    \/ RecvOther(c)
    \/ RecvEOS(c, maxUtter)
    \/ RecvReset(c)

\* the handler of connection c resumes: a send or a stage call it awaits
\* returns or raises
ServerStep(c, outcomes) ==
    \/ \E res \in {"ok", "raise"} : SendConnected(c, res)
    \/ Close(c)
    \/ \E res \in {"ok", "raise"} : SendReset(c, res)
    \/ \E res \in {"ok", "raise"} : SendTranscription(c, res)
    \/ \E text \in Transcripts : Transcribe(c, text)
    \/ \E res \in {"ok", "raise"} : SendEmpty(c, res)
    \/ \E res \in {"ok", "raise"} : SendLlm(c, res)
    \/ \E outcome \in outcomes : Complete(c, outcome)
    \/ \E res \in {"ok", "raise"} : SendTts(c, res)
    \/ \E n \in WavLens : Synthesize(c, n)
    \/ SynthesizeRaise(c)
    \/ \E res \in {"ok", "raise"} : SendBytes(c, res)
    \/ \E res \in {"ok", "raise"} : SendComplete(c, res)
    \/ \E res \in {"ok", "raise"} : SendError(c, res)

\* one connection
Next == ClientStep(1, MaxUtter) \/ ServerStep(1, LlmOutcomesCommon)

Spec == Init /\ [][Next]_vars

\* the steps of the handler of connection c for an utterance of one chunk:
\* every send returns or raises, the transcript is text or empty, the
\* completion answers in one or two spans or blank or fails, the synthesis
\* returns or raises
HandlerStep(c) ==
    \/ \E res \in {"ok", "raise"} : SendConnected(c, res)
    \/ Close(c)
    \/ \E res \in {"ok", "raise"} : SendReset(c, res)
    \/ \E res \in {"ok", "raise"} : SendTranscription(c, res)
    \/ \E text \in {"hello", ""} : Transcribe(c, text)
    \/ \E res \in {"ok", "raise"} : SendEmpty(c, res)
    \/ \E res \in {"ok", "raise"} : SendLlm(c, res)
    \/ \E outcome \in LlmOutcomesCommon : Complete(c, outcome)
    \/ \E res \in {"ok", "raise"} : SendTts(c, res)
    \/ Synthesize(c, 44)
    \/ SynthesizeRaise(c)
    \/ \E res \in {"ok", "raise"} : SendBytes(c, res)
    \/ \E res \in {"ok", "raise"} : SendComplete(c, res)
    \/ \E res \in {"ok", "raise"} : SendError(c, res)

NextFair ==
    \/ Connect(1)
    \/ ClientDisconnect(1)
    \/ \E sid \in {"s1", ""} : Handshake(1, sid)
    \/ HandshakeBad(1)
    \/ HandshakeDisconnect(1)
    \/ RecvDisconnect(1)
    \/ RecvBinary(1, <<1>>)
    \/ RecvBadText(1)
    \/ RecvOther(1)
    \/ RecvEOS(1, MaxUtter)
    \/ RecvReset(1)
    \/ HandlerStep(1)

\* one connection whose awaited sends and stage calls all return: the event
\* loop resumes a handler whose await has completed
SpecFair == Init /\ [][NextFair]_vars /\ WF_vars(HandlerStep(1))

\* a long conversation: both models are loaded, the client stays, every
\* utterance is one chunk that is transcribed to text, and the completion
\* either answers or fails to connect
InitLong == Init /\ VOSK_MODEL /\ groq_client

LlmOutcomesLong == {o \in LlmOutcomes : o.kind = "request_error" \/ o.content = "Hi."}

NextLong ==
    \/ Connect(1)
    \/ Handshake(1, "s1")
    \/ SendConnected(1, "ok")
    \/ RecvBinary(1, <<1>>)
    \/ RecvEOS(1, MaxUtterLong)
    \/ RecvReset(1)
    \/ SendReset(1, "ok")
    \/ SendTranscription(1, "ok")
    \/ Transcribe(1, "hello")
    \/ SendLlm(1, "ok")
    \/ \E outcome \in LlmOutcomesLong : Complete(1, outcome)
    \/ SendTts(1, "ok")
    \/ Synthesize(1, 44)
    \/ SendBytes(1, "ok")
    \/ SendComplete(1, "ok")

SpecLong == InitLong /\ [][NextLong]_vars

\* streaming: one connection, both models loaded, replies of one and of two
\* spans, containers of a bare header, of one chunk exactly, of a chunk and
\* a byte and of two chunks exactly; the client may go away at any send
StreamLens == {44, chunk_size, chunk_size + 1, 2 * chunk_size}

NextStream ==
    \/ Connect(1)
    \/ ClientDisconnect(1)
    \/ Handshake(1, "s1")
    \/ HandshakeDisconnect(1)
    \/ \E res \in {"ok", "raise"} : SendConnected(1, res)
    \/ RecvDisconnect(1)
    \/ RecvBinary(1, <<1>>)
    \/ RecvEOS(1, MaxUtter)
    \/ \E res \in {"ok", "raise"} : SendTranscription(1, res)
    \/ Transcribe(1, "hello")
    \/ \E res \in {"ok", "raise"} : SendLlm(1, res)
    \/ \E content \in {"Hi.", "Yes. No."} : Complete(1, [kind |-> "ok", content |-> content])
    \/ \E res \in {"ok", "raise"} : SendTts(1, res)
    \/ \E n \in StreamLens : Synthesize(1, n)
    \/ SynthesizeRaise(1)
    \/ \E res \in {"ok", "raise"} : SendBytes(1, res)
    \/ \E res \in {"ok", "raise"} : SendComplete(1, res)
    \/ \E res \in {"ok", "raise"} : SendError(1, res)

SpecStream == InitLong /\ [][NextStream]_vars

\* long frames: one connection, both models loaded, frames of one byte, of
\* one sample, of exactly one read of the transcription and of one read and
\* a byte; every transcript is blank
LongPayload(n) == [i \in 1..n |-> 1 + (i % 2)]
PcmPayloads == {<<1>>, <<1, 2>>, LongPayload(2 * read_frames), LongPayload(2 * read_frames + 1)}

NextWav ==
    \/ Connect(1)
    \/ Handshake(1, "s1")
    \/ SendConnected(1, "ok")
    \/ \E audio_chunk \in PcmPayloads : RecvBinaryUpTo(1, audio_chunk, MaxPcm)
    \/ RecvEOS(1, MaxUtter)
    \/ SendTranscription(1, "ok")
    \/ Transcribe(1, "")
    \/ SendEmpty(1, "ok")

SpecWav == InitLong /\ [][NextWav]_vars

\* the completion in every way it can end: one connection, both models
\* loaded, utterances transcribed to text, every outcome of the request
NextLlm ==
    \/ Connect(1)
    \/ Handshake(1, "s1")
    \/ SendConnected(1, "ok")
    \/ RecvBinary(1, <<1>>)
    \/ RecvEOS(1, MaxUtter)
    \/ SendTranscription(1, "ok")
    \/ Transcribe(1, "hello")
    \/ SendLlm(1, "ok")
    \/ \E outcome \in LlmOutcomes : Complete(1, outcome)
    \/ SendTts(1, "ok")
    \/ Synthesize(1, 44)
    \/ SendBytes(1, "ok")
    \/ SendComplete(1, "ok")

SpecLlm == InitLong /\ [][NextLlm]_vars

\* profiles of the engine: one connection, both models loaded, one utterance
\* with a reply of one span, whose synthesis the engine emits with no, one,
\* two or more channels, samples of no to MaxSampwidth bytes, and no rate,
\* the target rate, a lower or a higher one
EngineParams ==
    {Params(nchannels, sampwidth, framerate) :
        nchannels \in 0..MaxChannels, sampwidth \in 0..MaxSampwidth,
        framerate \in {0, 8000, TARGET_SAMPLE_RATE, 44100}}

NextTts ==
    \/ Connect(1)
    \/ Handshake(1, "s1")
    \/ SendConnected(1, "ok")
    \/ RecvBinary(1, <<1>>)
    \/ RecvEOS(1, 1)
    \/ SendTranscription(1, "ok")
    \/ Transcribe(1, "hello")
    \/ SendLlm(1, "ok")
    \/ Complete(1, [kind |-> "ok", content |-> "Hi."])
    \/ SendTts(1, "ok")
    \/ \E params \in EngineParams : SynthesizeFrom(1, params, 44)
    \/ SendBytes(1, "ok")
    \/ SendComplete(1, "ok")
    \/ SendError(1, "ok")

SpecTts == InitLong /\ [][NextTts]_vars

\* frames in flight: one connection, both models loaded, no failure but the
\* blank transcript; while a pipeline runs the client sends further frames,
\* audio of byte 2, EOS or RESET, which wait until the handler reads again
QueuedFrames == {Frame("binary", <<2>>), Frame("EOS", <<>>), Frame("RESET", <<>>)}

NextQueued ==
    \/ Connect(1)
    \/ Handshake(1, "s1")
    \/ SendConnected(1, "ok")
    \/ \E audio_chunk \in {<<1>>, <<2>>} : RecvBinary(1, audio_chunk)
    \/ RecvEOS(1, MaxUtter)
    \/ RecvReset(1)
    \/ SendReset(1, "ok")
    \/ /\ InPipeline(1)
       /\ obs[1].nUtter < MaxUtter
       /\ \E frame \in QueuedFrames : ClientSend(1, frame)
    \/ SendTranscription(1, "ok")
    \/ \E text \in {"hello", ""} : Transcribe(1, text)
    \/ SendEmpty(1, "ok")
    \/ SendLlm(1, "ok")
    \/ Complete(1, [kind |-> "ok", content |-> "Hi."])
    \/ SendTts(1, "ok")
    \/ Synthesize(1, 44)
    \/ SendBytes(1, "ok")
    \/ SendComplete(1, "ok")

SpecQueued == InitLong /\ [][NextQueued]_vars

\* two connections that handshake with the same session id while both
\* models are loaded: each client sends audio bytes of its own (its number);
\* the first one ends an utterance, whose stages succeed; the second one
\* goes away
NextTwo ==
    \/ \E c \in Conns :
          \/ Connect(c)
          \/ Handshake(c, "s1")
          \/ SendConnected(c, "ok")
          \/ RecvBinary(c, <<c>>)
    \/ RecvEOS(1, 1)
    \/ SendTranscription(1, "ok")
    \/ Transcribe(1, "hello")
    \/ SendLlm(1, "ok")
    \/ Complete(1, [kind |-> "ok", content |-> "Hi."])
    \/ SendTts(1, "ok")
    \/ Synthesize(1, 44)
    \/ SendBytes(1, "ok")
    \/ SendComplete(1, "ok")
    \/ Close(1)
    \/ ClientDisconnect(2)
    \/ RecvDisconnect(2)

SpecTwo == InitLong /\ [][NextTwo]_vars

\* mutant: the transcription and the synthesis are called on the thread of
\* the event loop
OnLoopThread_direct == {c \in Conns : task[c].pc \in {"transcribe", "synthesize"}}

\* the connections whose stage call runs on the thread of the event loop:
\* none, the transcription and the synthesis are awaited through
\* asyncio.to_thread and the completion through an asynchronous client
OnLoopThread == {}

\* the event loop can run a step of the task of connection c
Runnable(c) == OnLoopThread \subseteq {c}

\* two connections with ids of their own while both models are loaded; each
\* sends audio of its own byte and ends one utterance, whose stages succeed
PairStep(c) ==
    \/ Runnable(c) /\ Connect(c)
    \/ Runnable(c) /\ Handshake(c, IF c = 1 THEN "s1" ELSE "s2")
    \/ Runnable(c) /\ SendConnected(c, "ok")
    \/ Runnable(c) /\ RecvBinary(c, <<c>>)
    \/ Runnable(c) /\ RecvEOS(c, 1)
    \/ Runnable(c) /\ SendTranscription(c, "ok")
    \/ Runnable(c) /\ Transcribe(c, "hello")
    \/ Runnable(c) /\ SendLlm(c, "ok")
    \/ Runnable(c) /\ Complete(c, [kind |-> "ok", content |-> "Hi."])
    \/ Runnable(c) /\ SendTts(c, "ok")
    \/ Runnable(c) /\ Synthesize(c, 44)
    \/ Runnable(c) /\ SendBytes(c, "ok")
    \/ Runnable(c) /\ SendComplete(c, "ok")

NextPair == \E c \in Conns : PairStep(c)

SpecPair == InitLong /\ [][NextPair]_vars

\* coming and going: two connections while both models are loaded, the
\* first with session id s1, the second with s1 too or with s2; each sends
\* audio of its own byte, ends one utterance whose stages succeed and may go
\* away at any moment; the first may send RESET
NextLeave ==
    \E c \in Conns :
        \/ Connect(c)
        \/ ClientDisconnect(c)
        \/ \E sid \in (IF c = 1 THEN {"s1"} ELSE Sids) : Handshake(c, sid)
        \/ HandshakeDisconnect(c)
        \/ \E res \in {"ok", "raise"} : SendConnected(c, res)
        \/ RecvDisconnect(c)
        \/ Len(obs[c].rcvd) <= MaxBuf /\ RecvBinary(c, <<c>>)
        \/ RecvEOS(c, 1)
        \/ c = 1 /\ RecvReset(c)
        \/ \E res \in {"ok", "raise"} : SendReset(c, res)
        \/ Close(c)
        \/ \E res \in {"ok", "raise"} : SendTranscription(c, res)
        \/ Transcribe(c, "hello")
        \/ \E res \in {"ok", "raise"} : SendLlm(c, res)
        \/ Complete(c, [kind |-> "ok", content |-> "Hi."])
        \/ \E res \in {"ok", "raise"} : SendTts(c, res)
        \/ Synthesize(c, 44)
        \/ \E res \in {"ok", "raise"} : SendBytes(c, res)
        \/ \E res \in {"ok", "raise"} : SendComplete(c, res)
        \/ \E res \in {"ok", "raise"} : SendError(c, res)

SpecLeave == InitLong /\ [][NextLeave]_vars

(***************************************************************************)
(* Properties.                                                             *)
(***************************************************************************)
Buffer(c) == SESSION_AUDIO_BUFFERS[task[c].session_id]
Stats(c) == SESSION_AUDIO_STATS[task[c].session_id]
Registered(c) ==
    /\ task[c].session_id \in DOMAIN SESSION_AUDIO_BUFFERS
    /\ task[c].session_id \in DOMAIN SESSION_AUDIO_STATS
ZeroStats == [chunks |-> 0, bytes |-> 0]
\* the loop has handled an EOS with audio and reads the next frame
AfterPipeline(c) == task[c].pc = "receive" /\ obs[c].last = "EOS"

RECURSIVE Count(_, _)
\* how many messages of a log have this status
Count(log, status) ==
    IF log = <<>> THEN 0
    ELSE (IF Head(log).status = status THEN 1 ELSE 0) + Count(Tail(log), status)

\* C1: while a transcription call is in flight, its audio argument is the
\* concatenation, in receipt order, of the payloads of the binary frames the
\* handler received since the handshake or the last buffer reset, and it is
\* not empty.
C1_TranscriptionAudio ==
    \A c \in Conns :
        task[c].pc = "transcribe"
            => obs[c].audio = obs[c].rcvd /\ obs[c].audio # <<>>

\* C1 witness: the second utterance of a connection, sent as two one-byte
\* frames 2 then 1, is being transcribed.
C1_Witness ==
    /\ task[1].pc = "transcribe"
    /\ obs[1].nUtter = 2
    /\ obs[1].audio = <<2, 1>>
    /\ Stats(1) = [chunks |-> 2, bytes |-> 2]

\* C2: when the handling of an EOS with audio is back at the message loop,
\* the session's buffer is empty and its stats are zero, whether the
\* pipeline succeeded, found a blank transcript or caught an exception.
C2_BufferResetAfterPipeline ==
    \A c \in Conns :
        AfterPipeline(c) => Registered(c) /\ Buffer(c) = <<>> /\ Stats(c) = ZeroStats

\* C2 witness: the pipeline is back at the loop after the synthesis raised
\* and the error notice was delivered.
C2_Witness ==
    /\ AfterPipeline(1)
    /\ obs[1].sent # <<>>
    /\ obs[1].sent[Len(obs[1].sent)] = Notice("error", "", ERROR_PROCESSING, "ValueError")

\* C9: after a blank transcript the client, while connected, gets exactly
\* the transcription notice and then one error notice; no completion or
\* synthesis call is made; the history is as it was before the EOS; the
\* buffer is empty; and the handler goes back to reading frames without
\* closing.
C9_BlankTranscript ==
    \A c \in Conns :
        obs[c].stt = "blank" =>
            /\ obs[c].calls = <<StageCall("transcription", "")>>
            /\ task[c].pc # "closed" => SESSION_CONTEXTS = obs[c].contexts0
            /\ ~gone[c] => task[c].pc \in {"send_empty", "receive"}
            /\ task[c].pc = "receive" =>
                  /\ obs[c].sent = <<Notice("processing", "transcription", "", ""),
                                     Notice("error", "", ERROR_EMPTY_TRANSCRIPT, "")>>
                  /\ Registered(c) /\ Buffer(c) = <<>>
                  /\ task[c].close_code = 0

\* C9 witness: a connection whose history holds a turn is back at the loop
\* after a blank transcript.
C9_Witness ==
    /\ task[1].pc = "receive"
    /\ obs[1].stt = "blank"
    /\ obs[1].nUtter = 2
    /\ "s1" \in DOMAIN SESSION_CONTEXTS
    /\ Len(SESSION_CONTEXTS["s1"]) = 2

\* C10: an EOS that finds the buffer empty calls no stage and leaves the
\* history and the empty buffer as they were, also right after a RESET.
C10_EmptyEos ==
    \A c \in Conns :
        obs[c].last = "EOS_empty" =>
            /\ obs[c].calls = <<>>
            /\ task[c].pc \in {"receive", "closed"}
            /\ task[c].pc = "receive" =>
                  /\ SESSION_CONTEXTS = obs[c].contexts0
                  /\ Registered(c) /\ Buffer(c) = <<>>

\* C10 witness: an EOS directly after a RESET has been handled, with nothing
\* sent for it, by a session that had a history before the RESET.
C10_Witness ==
    /\ task[1].pc = "receive"
    /\ obs[1].last = "EOS_empty"
    /\ obs[1].after_reset
    /\ obs[1].nUtter = 1
    /\ obs[1].sent = <<>>

\* C3: if every awaited stage call and send returns, a handler that is in
\* the pipeline is eventually back reading frames, or has closed.
C3_NeverStuck ==
    \A c \in Conns : InPipeline(c) ~> task[c].pc \in {"receive", "closed"}

\* C3 witness: the handler is back reading frames after the completion
\* stage raised, the second utterance of the connection.
C3_Witness ==
    /\ AfterPipeline(1)
    /\ obs[1].llm = "raise"
    /\ obs[1].nUtter = 2

\* the non-blank sentence spans of a reply, in order
NonBlankSpans(text) == SelectSeq(sent_tokenize(text), LAMBDA span : ~IsBlank(span))

\* the stage calls made for the latest frame, in order: one transcription
\* first; then one completion, only after a non-blank transcript; then
\* synthesis calls only, after the completion returned, no span twice; inside
\* the sentence loop they are the spans reached so far, and all the spans
\* when the completion notice is due
CallsInOrder(c) ==
    LET calls == obs[c].calls
        n == Len(calls)
        spans == NonBlankSpans(task[c].llm_response)
        reached == Len(spans) - Len(task[c].sentences)
                     + (IF task[c].pc \in {"synthesize", "send_bytes"} THEN 1 ELSE 0)
    IN  /\ n >= 1 => calls[1] = StageCall("transcription", "")
        /\ n >= 2 => /\ obs[c].stt = "text"
                     /\ calls[2].stage = "completion"
                     /\ ~IsBlank(calls[2].text)
        /\ n >= 3 => /\ obs[c].llm \notin {"none", "raise"}
                     /\ \A k \in 3..n : calls[k].stage = "synthesis"
                     /\ \A j, k \in 3..n : j # k => calls[j].text # calls[k].text
        /\ task[c].pc \in {"send_tts", "synthesize", "send_bytes", "send_complete"}
              => /\ n = 2 + reached
                 /\ \A k \in 1..reached : calls[2 + k] = StageCall("synthesis", spans[k])

\* the pipeline of the latest EOS has failed: a blank transcript or an
\* exception was met
Failed(c) == task[c].pc \in {"send_empty", "send_error"}

\* C4 as claimed: for an EOS with audio whose handling is past its first
\* notice, the transcription was invoked exactly once and the stage calls
\* are in order, none twice.
C4_ExactlyOnce ==
    \A c \in Conns :
        obs[c].last = "EOS" /\ task[c].pc # "send_transcription"
            => Len(obs[c].calls) >= 1 /\ CallsInOrder(c)

\* C4 amended: for each EOS with audio every stage runs at most once and in
\* order (the transcription exactly once when its notice could be sent), and
\* once the pipeline has failed no stage is called for that EOS again.
C4_AtMostOnceInOrder ==
    /\ [](\A c \in Conns :
            /\ CallsInOrder(c)
            /\ task[c].pc \in {"transcribe", "send_llm", "complete", "send_tts",
                               "synthesize", "send_bytes", "send_complete"}
                  => Len(obs[c].calls) >= 1)
    /\ [][\A c \in Conns :
            Failed(c) => obs'[c].calls = obs[c].calls \/ obs'[c].calls = <<>>]_vars

\* C4 witness: both spans of a two-sentence reply have been synthesized and
\* the completion notice is due.
C4_Witness ==
    /\ task[1].pc = "send_complete"
    /\ obs[1].calls = <<StageCall("transcription", ""), StageCall("completion", "hello"),
                        StageCall("synthesis", "Yes."), StageCall("synthesis", "No.")>>

\* the stored history of session id sid
History(sid) == SESSION_CONTEXTS[sid]

\* C5: no stored history is ever longer than 2 * max_history_turns messages.
C5_HistoryBounded ==
    \A sid \in DOMAIN SESSION_CONTEXTS : Len(History(sid)) <= 2 * max_history_turns

\* C5 witness: the history was trimmed to the bound; its oldest user turn
\* is gone.
C5_Witness ==
    /\ "s1" \in DOMAIN SESSION_CONTEXTS
    /\ Len(History("s1")) = 2 * max_history_turns
    /\ History("s1")[1].role = "assistant"
    /\ obs[1].nUtter = MaxUtterLong

\* C6 as claimed: a stored history is empty or begins with a user turn.
C6_BeginsWithUser ==
    \A sid \in DOMAIN SESSION_CONTEXTS :
        History(sid) = <<>> \/ History(sid)[1].role = "user"

\* the second completion request since the handshake or the last RESET is
\* in flight
SecondCompletion(c) == task[c].pc = "complete" /\ obs[c].nLlm = 2

\* the window u1, a1, u2 after the system prompt
PairThenUser(c) ==
    task[c].messages = <<Turn("system", SYSTEM_PROMPT),
                         Turn("user", obs[c].first.transcript),
                         Turn("assistant", obs[c].first.reply),
                         Turn("user", task[c].transcript)>>

C8_OneErrorNotice ==
    \A c \in Conns :
        AfterPipeline(c) /\ ~gone[c] /\ obs[c].llm \in {"request_error", "http_status_error"}
            => Count(obs[c].sent, "error") = 1

\* C11 as claimed: when an EOS that found the buffer empty has been handled
\* and the handler reads the next frame, exactly one message was sent to the
\* client for that EOS.
C11_EmptyEosNotice ==
    \A c \in Conns :
        obs[c].last = "EOS_empty" /\ task[c].pc = "receive" => Len(obs[c].sent) = 1

\* the latest frame of connection c was a RESET and its handler has not left
ResetHandled(c) == obs[c].last = "RESET" /\ task[c].pc \in {"send_reset", "receive"}

\* C12: once a RESET is handled the session has no history, its buffer is
\* empty and it is still registered; no stage was called; when the handler
\* reads the next frame it has sent exactly the reset_complete notice, and
\* the audio of a binary frame that follows the RESET is buffered.
C12_Reset ==
    \A c \in Conns :
        /\ ResetHandled(c) =>
              /\ task[c].session_id \notin DOMAIN SESSION_CONTEXTS
              /\ Registered(c) /\ Buffer(c) = <<>>
              /\ obs[c].calls = <<>>
              /\ obs[c].sent = IF task[c].pc = "receive"
                               THEN <<Notice("reset_complete", "", "", "")>> ELSE <<>>
        /\ obs[c].after_reset /\ obs[c].last = "binary" /\ task[c].pc = "receive" =>
              Registered(c) /\ Buffer(c) = obs[c].rcvd

\* C12 witness: a session that had a history and buffered audio has handled
\* a RESET and reads the next frame.
C12_Witness ==
    /\ ResetHandled(1) /\ task[1].pc = "receive"
    /\ "s1" \in DOMAIN obs[1].contexts0
    /\ Len(obs[1].contexts0["s1"]) = 2
    /\ Stats(1).bytes = 2

\* C13: after a first message without session id (absent or empty) the
\* connection is closed with code 1008, which is not the code of other
\* server errors, nothing was sent to the client, and the buffer registry,
\* the stats map and the context store have no entry.
C13_NoSessionId ==
    \A c \in Conns :
        obs[c].last = "no_session_id" =>
            /\ task[c].pc = "closed"
            /\ task[c].close_code = CLOSE_POLICY
            /\ task[c].close_code # CLOSE_ERROR
            /\ obs[c].sent = <<>>
            /\ SESSION_AUDIO_BUFFERS = EmptyDict
            /\ SESSION_AUDIO_STATS = EmptyDict
            /\ SESSION_CONTEXTS = EmptyDict

\* C13 witness: a handshake with an empty session_id was refused.
C13_Witness ==
    /\ obs[1].last = "no_session_id"
    /\ task[1].session_id = ""
    /\ task[1].pc = "closed"

\* the latest message of connection c was a text frame that is no control
\* message
Unparseable(c) == obs[c].last \in {"bad_handshake", "bad_text"}

\* the stores hold nothing under the session id of connection c
NoEntries(c) ==
    /\ task[c].session_id \notin DOMAIN SESSION_AUDIO_BUFFERS
    /\ task[c].session_id \notin DOMAIN SESSION_AUDIO_STATS
    /\ task[c].session_id \notin DOMAIN SESSION_CONTEXTS

\* C14: after a text frame that is no control message, at the handshake or
\* in the loop, the handler is closing or has closed the connection with
\* code 1011 and has then removed the session's registry and context
\* entries; it handles no further frame, sends nothing and calls no stage.
C14_Unparseable ==
    /\ [](\A c \in Conns :
            Unparseable(c) =>
                /\ task[c].pc \in {"close", "closed"}
                /\ task[c].pc = "closed" =>
                      task[c].close_code = CLOSE_ERROR /\ NoEntries(c))
    /\ [][\A c \in Conns : Unparseable(c) => obs'[c] = obs[c]]_vars

\* C14 witness: a session with a history was closed for an unreadable text
\* frame in the loop.
C14_Witness ==
    /\ obs[1].last = "bad_text"
    /\ task[1].pc = "closed"
    /\ task[1].session_id = "s1"
    /\ obs[1].first.answered

\* C15: a JSON text frame whose signal is neither EOS nor RESET, or is
\* absent, changes nothing: when it is received the buffers, the stats, the
\* histories and the handler's position stay as they are, and until the
\* next frame no stage is called, nothing is sent and the handler keeps
\* reading frames of the open connection (or sees the client go).
C15_UnknownSignalIgnored ==
    /\ [](\A c \in Conns :
            obs[c].last = "other" =>
                /\ obs[c].sent = <<>> /\ obs[c].calls = <<>>
                /\ task[c].pc \in {"receive", "closed"}
                /\ task[c].pc = "closed" => gone[c] /\ task[c].close_code = 0
                /\ task[c].pc = "receive" =>
                      /\ SESSION_CONTEXTS = obs[c].contexts0
                      /\ Registered(c) /\ Buffer(c) = obs[c].rcvd)
    /\ [][\A c \in Conns :
            obs[c].last # "other" /\ obs'[c].last = "other" =>
                UNCHANGED <<stores, task>>]_vars

\* C15 witness: an unknown signal arrived while audio was buffered and the
\* session had a history.
C15_Witness ==
    /\ obs[1].last = "other"
    /\ task[1].pc = "receive"
    /\ Buffer(1) = <<1, 2>>
    /\ Stats(1).chunks = 2
    /\ "s1" \in DOMAIN SESSION_CONTEXTS

\* the handler of connection c has exited after a handshake that carried a
\* session id
ExitedSession(c) == task[c].pc = "closed" /\ Truthy(task[c].session_id)

\* C16: once the handler of a connection that registered a session id has
\* exited, by whatever path, the buffer registry, the stats map and the
\* context store hold no entry for that id.
C16_CleanupOnExit == \A c \in Conns : ExitedSession(c) => NoEntries(c)

\* C16 witness: the handler left while sending the error notice of a failed
\* pipeline to a client that had gone, after an answered utterance.
C16_Witness ==
    /\ ExitedSession(1)
    /\ gone[1]
    /\ obs[1].last = "EOS"
    /\ obs[1].nUtter = 2
    /\ obs[1].first.answered

\* C17 as claimed: no connection shares its buffer with another one: the
\* buffer a handler finds when it reads its next frame holds the audio that
\* this connection received since its last buffer reset, and nothing else.
C17_NoSharedBuffer ==
    \A c \in Conns :
        task[c].pc = "receive" /\ Registered(c) => Buffer(c) = obs[c].rcvd

IsTtsNotice(msg) == msg.status = "processing" /\ msg.stage = "tts"
IsBinary(msg) == msg.status = "binary"

\* the span texts of the tts notices of a log, in order
TtsTexts(log) ==
    LET notices == SelectSeq(log, IsTtsNotice)
    IN  [k \in 1..Len(notices) |-> notices[k].text]

\* s is an initial part of t
IsPrefix(s, t) == Len(s) <= Len(t) /\ s = SubSeq(t, 1, Len(s))

\* the handler is inside the sentence loop or just past it
InSentenceLoop(c) ==
    task[c].pc \in {"send_tts", "synthesize", "send_bytes", "send_complete"}

\* C18: in what was sent for an utterance, every binary chunk follows
\* directly the tts notice of its own span, then at offset 0, or an earlier
\* chunk of that span at a smaller offset; and the tts notices are those of
\* the reply's spans, each once and in span order. So all chunks of span k
\* are out before the notice and the chunks of span k+1.
C18_OutboundFifo ==
    \A c \in Conns :
        LET sent == obs[c].sent IN
        /\ \A j \in DOMAIN sent :
              IsBinary(sent[j]) =>
                  /\ j > 1
                  /\ \/ /\ IsTtsNotice(sent[j - 1])
                        /\ sent[j - 1].text = sent[j].text
                        /\ sent[j].lo = 0
                     \/ /\ IsBinary(sent[j - 1])
                        /\ sent[j - 1].text = sent[j].text
                        /\ sent[j - 1].lo < sent[j].lo
        /\ InSentenceLoop(c) =>
              IsPrefix(TtsTexts(sent), NonBlankSpans(task[c].llm_response))
        /\ \A j, k \in DOMAIN TtsTexts(sent) :
              j # k => TtsTexts(sent)[j] # TtsTexts(sent)[k]

\* C18 witness: two spans were streamed, the second one in two chunks.
C18_Witness ==
    /\ task[1].pc = "send_complete"
    /\ Len(obs[1].sent) = 7
    /\ obs[1].sent[4] = BinaryFrame("Yes.", 0, 44)
    /\ obs[1].sent[5] = Notice("processing", "tts", "No.", "")
    /\ obs[1].sent[7] = BinaryFrame("No.", chunk_size, chunk_size + 1)

\* the number of binary frames at the head of a log
RECURSIVE LeadingBinary(_)
LeadingBinary(log) ==
    IF log # <<>> /\ IsBinary(Head(log)) THEN 1 + LeadingBinary(Tail(log)) ELSE 0

\* a log is, for each of the spans in order, the tts notice with the span's
\* text followed by one or more binary frames of that span, and nothing else
RECURSIVE Streamed(_, _)
Streamed(log, spans) ==
    IF spans = <<>> THEN log = <<>>
    ELSE /\ log # <<>>
         /\ Head(log) = Notice("processing", "tts", Head(spans), "")
         /\ LET k == LeadingBinary(Tail(log)) IN
            /\ k >= 1
            /\ \A m \in 2..(k + 1) : log[m].text = Head(spans)
            /\ Streamed(SubSeq(log, k + 2, Len(log)), Tail(spans))

\* a log is the transcription notice, the llm notice with the transcript,
\* and the spans streamed in order
Progress(log, transcript, spans) ==
    /\ Len(log) >= 2
    /\ log[1] = Notice("processing", "transcription", "", "")
    /\ log[2] = Notice("processing", "llm", transcript, "")
    /\ Streamed(SubSeq(log, 3, Len(log)), spans)

\* the span texts of the synthesis calls of a log of stage calls
SynthTexts(calls) == [k \in 1..(Len(calls) - 2) |-> calls[k + 2].text]

\* C19: when every span of the reply has been streamed, what was sent for
\* the utterance is the transcription notice, the llm notice with the
\* transcript, and per span of the reply, in order, its tts notice and then
\* its chunks; the complete notice comes once, last, after exactly that,
\* when no stage or send failed.
C19_OutboundSequence ==
    \A c \in Conns :
        /\ task[c].pc = "send_complete" =>
              Progress(obs[c].sent, task[c].transcript,
                       NonBlankSpans(task[c].llm_response))
        /\ AfterPipeline(c) /\ Count(obs[c].sent, "complete") > 0 =>
              LET sent == obs[c].sent
                  n == Len(sent)
              IN  /\ sent[n] = Notice("complete", "", "", "")
                  /\ Count(sent, "complete") = 1
                  /\ Count(sent, "error") = 0
                  /\ Len(obs[c].calls) >= 3
                  /\ Progress(SubSeq(sent, 1, n - 1), obs[c].calls[2].text,
                              SynthTexts(obs[c].calls))
        /\ AfterPipeline(c) /\ ~gone[c] /\ obs[c].stt = "text"
              /\ obs[c].llm = "ok" /\ Count(obs[c].sent, "error") = 0
              => Count(obs[c].sent, "complete") = 1

\* C19 witness: an utterance with a two-span reply was answered in full.
C19_Witness ==
    /\ AfterPipeline(1)
    /\ Len(obs[1].sent) = 8
    /\ obs[1].sent[2] = Notice("processing", "llm", "hello", "")
    /\ obs[1].sent[3] = Notice("processing", "tts", "Yes.", "")
    /\ obs[1].sent[8] = Notice("complete", "", "", "")

\* C20: every binary frame sent is a slice of 1 to 4096 bytes of the
\* container synthesized for its span; the first frame of a span starts at
\* offset 0, every later one where the frame before it ended, and a frame
\* that is followed by another one is exactly 4096 bytes; while a span is
\* streamed the frames sent reach the loop's offset, and when the loop
\* leaves the span the last frame ends at the container's length.
C20_ChunkSlices ==
    /\ [](\A c \in Conns :
            LET sent == obs[c].sent
                n == Len(sent)
            IN  /\ \A j \in DOMAIN sent :
                      IsBinary(sent[j]) =>
                          /\ sent[j].lo < sent[j].hi
                          /\ sent[j].hi - sent[j].lo <= chunk_size
                          /\ j > 1
                          /\ IF IsBinary(sent[j - 1])
                             THEN /\ sent[j].lo = sent[j - 1].hi
                                  /\ sent[j - 1].hi - sent[j - 1].lo = chunk_size
                             ELSE sent[j].lo = 0
                /\ task[c].pc = "send_bytes" =>
                      /\ task[c].i < task[c].wav_bytes
                      /\ n >= 1
                      /\ IF task[c].i = 0 THEN IsTtsNotice(sent[n])
                         ELSE IsBinary(sent[n]) /\ sent[n].hi = task[c].i)
    /\ [][\A c \in Conns :
            task[c].pc = "send_bytes" /\ task'[c].pc \in {"send_tts", "send_complete"} =>
                LET sent == obs'[c].sent IN
                /\ Len(sent) = Len(obs[c].sent) + 1
                /\ IsBinary(sent[Len(sent)])
                /\ sent[Len(sent)].hi = task[c].wav_bytes]_vars

\* C20 witness: a container of two chunks exactly went out as two frames of
\* 4096 bytes and the loop went on to the next span.
C20_Witness ==
    /\ task[1].pc = "send_tts"
    /\ Len(obs[1].sent) = 5
    /\ obs[1].sent[4] = BinaryFrame("Yes.", 0, chunk_size)
    /\ obs[1].sent[5] = BinaryFrame("Yes.", chunk_size, 2 * chunk_size)

\* the handler awaits a stage call / a send of the pipeline
StagePcs == {"transcribe", "complete", "synthesize"}
SendPcs == {"send_empty", "send_llm", "send_tts", "send_bytes", "send_complete",
            "send_error"}

\* C21 as claimed: when a stage call returns to a handler whose client went
\* away while the call was in flight, the handler does not go on to send a
\* message.
C21_StaleResultDiscarded ==
    [][\A c \in Conns :
          gone[c] /\ task[c].pc \in StagePcs => task'[c].pc \notin SendPcs]_vars

\* the client of connection c has sent a RESET the handler has not read yet
ResetInFlight(c) == \E k \in DOMAIN inbox[c] : inbox[c][k].kind = "RESET"

\* a message that carries the transcript, the reply text or the audio of an
\* utterance
CarriesResult(msg) ==
    \/ IsBinary(msg)
    \/ msg.status = "processing" /\ msg.stage \in {"llm", "tts"}

\* C22 as claimed: once the client has sent a RESET during a pipeline, the
\* handler sends no message that carries the transcript, the reply text or
\* the audio of the utterance in flight.
C22_NoResultAfterReset ==
    [][\A c \in Conns :
          ResetInFlight(c) /\ InPipeline(c) /\ Len(obs'[c].sent) > Len(obs[c].sent)
              => ~CarriesResult(obs'[c].sent[Len(obs'[c].sent)])]_vars

\* C23: no message sent carries the text of a stage's exception; the error
\* notice of a stage exception has the one fixed message and the type name
\* of the exception; and the handling of an EOS never ends in the handler's
\* outer except clause, which closes with the exception's text as reason.
C23_NoInternalText ==
    \A c \in Conns :
        /\ \A k \in DOMAIN obs[c].sent :
              LET msg == obs[c].sent[k] IN
              /\ msg.text \notin ExceptionTexts
              /\ msg.status = "error" /\ msg.error_type # "" =>
                    /\ msg.text = ERROR_PROCESSING
                    /\ msg.error_type \in {"RuntimeError", "ValueError",
                                           "WebSocketDisconnect"}
        /\ obs[c].last = "EOS" =>
              task[c].pc # "close" /\ task[c].close_code # CLOSE_ERROR

\* C23 witness: the completion stage raised and its error notice was sent.
C23_Witness ==
    /\ AfterPipeline(1)
    /\ obs[1].llm = "raise"
    /\ obs[1].sent[Len(obs[1].sent)] = ErrorNotice("RuntimeError")

\* C24: a blank transcript, or an exception raised by the transcription,
\* completion or synthesis stage, never makes the server close the
\* connection: while the client stays connected the handler is never on its
\* way to a close during or after a pipeline, and its next step after the
\* failure sends one error notice and is back at the receive of the message
\* loop with the session still registered.
C24_FailureKeepsOpen ==
    /\ [](\A c \in Conns :
             ~gone[c] /\ obs[c].last = "EOS" => task[c].pc \notin {"close", "closed"})
    /\ [][\A c \in Conns :
             Failed(c) /\ ~gone'[c] /\ task'[c] # task[c] =>
                 /\ task'[c].pc = "receive"
                 /\ Len(obs'[c].sent) = Len(obs[c].sent) + 1
                 /\ obs'[c].sent[Len(obs'[c].sent)].status = "error"
                 /\ Registered(c)']_vars

\* C24 witness: the transcription stage raised, the client stayed connected,
\* the error notice was sent and the handler reads the next frame.
C24_Witness ==
    /\ AfterPipeline(1) /\ ~gone[1]
    /\ obs[1].stt = "raise"
    /\ obs[1].sent[Len(obs[1].sent)] = ErrorNotice("RuntimeError")
    /\ Registered(1)

\* C25: the transcription wraps the audio of the utterance with
\* create_wav_header(pcm, 16000, 1, 2) and reads the container back; what
\* its recognizer is given is the same bytes, all of them and in order, in
\* the format 16000 Hz, 1 channel, 2 bytes per sample, whatever the length of
\* the audio, odd lengths included.
C25_WavRoundTrip ==
    [][\A c \in Conns :
          task[c].pc = "transcribe" /\ VOSK_MODEL /\ task'[c] # task[c] =>
              /\ task[c].pcm_data # <<>>
              /\ obs'[c].fed = Fed(16000, 1, 2, task[c].pcm_data)]_vars

\* C25 witness: audio of an odd count of bytes that takes more than one read
\* has been read back whole.
C25_Witness ==
    /\ task[1].pc = "send_empty"
    /\ Len(obs[1].fed.frames) % 2 = 1
    /\ Len(obs[1].fed.frames) > 2 * read_frames
    /\ obs[1].fed = Fed(16000, 1, 2, SESSION_AUDIO_BUFFERS["s1"])

\* C26 as claimed: while a stage call of a pipeline is in flight
\* (transcription, completion or synthesis) the audio buffer of the session
\* is empty: it was replaced before the call began.
C26_BufferEmptyInFlight ==
    \A c \in Conns :
        task[c].pc \in StagePcs /\ Registered(c) => Buffer(c) = <<>>

\* C27: audio frames the client sends while a pipeline is in flight wait in
\* the receive queue: no step inside the pipeline changes the buffer; when
\* the pipeline ends the buffer holds the audio received before its EOS and
\* nothing else, the reset empties it and leaves the queue as it is; a
\* queued audio frame the handler then reads is appended to the buffer, and
\* is the whole buffer when it is the first frame after the pipeline.
C27_QueuedNotMerged ==
    [][\A c \in Conns :
          /\ InPipeline(c) /\ InPipeline(c)' /\ Registered(c) =>
                Registered(c)' /\ Buffer(c)' = Buffer(c)
          /\ InPipeline(c) /\ task'[c].pc = "receive" /\ Registered(c) =>
                /\ Buffer(c) = obs[c].rcvd
                /\ Buffer(c)' = <<>>
                /\ inbox'[c] = inbox[c]
          /\ /\ task[c].pc = "receive" /\ inbox[c] # <<>> /\ inbox'[c] = Tail(inbox[c])
             /\ Head(inbox[c]).kind = "binary" /\ Registered(c)
             => /\ Buffer(c)' = Buffer(c) \o Head(inbox[c]).payload
                /\ AfterPipeline(c) => Buffer(c)' = Head(inbox[c]).payload]_vars

\* C27 witness: an audio frame and an EOS were sent during the first
\* pipeline; after it the handler has read the audio frame, which is the
\* whole buffer, and the EOS still waits.
C27_Witness ==
    /\ task[1].pc = "receive"
    /\ obs[1].nUtter = 1 /\ obs[1].last = "binary"
    /\ inbox[1] = <<Frame("EOS", <<>>)>>
    /\ Buffer(1) = <<2>>

\* the connection is open: accepted and not yet left by its handler
Live(c) == task[c].pc \notin {"idle", "closed"}
\* the step is none of this connection: its task, its client and its frames
\* in flight are as before
Quiet(c) ==
    /\ task'[c] = task[c] /\ obs'[c] = obs[c]
    /\ inbox'[c] = inbox[c] /\ gone'[c] = gone[c]
\* the entry of a registry under an id, if there is one
Held(registry, sid) == IF sid \in DOMAIN registry THEN {registry[sid]} ELSE {}

\* C28 as claimed: the buffer, the stats and the context a live connection
\* uses are changed or removed by steps of its own task only: a step of
\* another connection leaves the three entries under its session id as they
\* are.
C28_OwnTaskOnly ==
    [][\A c \in Conns :
          Live(c) /\ task[c].pc # "receive_handshake" /\ Quiet(c) =>
              LET sid == task[c].session_id IN
              /\ Held(SESSION_AUDIO_BUFFERS', sid) = Held(SESSION_AUDIO_BUFFERS, sid)
              /\ Held(SESSION_AUDIO_STATS', sid) = Held(SESSION_AUDIO_STATS, sid)
              /\ Held(SESSION_CONTEXTS', sid) = Held(SESSION_CONTEXTS, sid)]_vars

\* the handling of a frame begins in this step: a frame in flight is taken,
\* audio is received, or an utterance is counted
FrameBegins(c) ==
    \/ inbox[c] # <<>> /\ inbox'[c] = Tail(inbox[c])
    \/ obs'[c].rcvd # obs[c].rcvd /\ obs'[c].rcvd # <<>>
    \/ obs'[c].nUtter > obs[c].nUtter

\* C29: within one connection the handling of a frame begins only while the
\* handler is at the receive of its loop, never inside a pipeline; a
\* pipeline begins only there; and when a frame follows an EOS the buffer
\* and the stats have been reset already.
C29_Sequential ==
    [][\A c \in Conns :
          /\ FrameBegins(c) =>
                /\ task[c].pc = "receive" /\ ~InPipeline(c)
                /\ obs[c].last \in {"EOS", "EOS_empty"} /\ Registered(c) =>
                       Buffer(c) = <<>> /\ Stats(c) = ZeroStats
          /\ task'[c].pc = "send_transcription" /\ task[c].pc # "send_transcription" =>
                task[c].pc = "receive" /\ FrameBegins(c)]_vars

\* C29 witness: the second utterance is being handled, of the audio that
\* came after the first pipeline alone.
C29_Witness ==
    /\ task[1].pc = "send_transcription"
    /\ obs[1].nUtter = 2
    /\ task[1].pcm_data = <<2>> /\ Buffer(1) = <<2>>
    /\ Stats(1) = [chunks |-> 1, bytes |-> 1]

Fallbacks ==
    {FALLBACK_MALFORMED, FALLBACK_EMPTY, FALLBACK_HTTP, FALLBACK_REQUEST,
     FALLBACK_OTHER, FALLBACK_MAIN}

\* C31: the synthesis is never called with an empty or blank text: while
\* the handler is in or past the sentence loop the text it segments is a
\* non-blank reply or a fixed fallback sentence, and every text given to the
\* synthesis is a non-blank span of it.
C31_NoBlankSynthesis ==
    \A c \in Conns :
        /\ \A k \in DOMAIN obs[c].calls :
              obs[c].calls[k].stage = "synthesis" => ~IsBlank(obs[c].calls[k].text)
        /\ task[c].pc \in {"send_tts", "synthesize", "send_bytes", "send_complete"} =>
              /\ ~IsBlank(task[c].llm_response)
              /\ task[c].llm_response \in Replies \cup Fallbacks
              /\ \A k \in DOMAIN task[c].sentences : ~IsBlank(task[c].sentences[k])
              /\ task[c].pc = "synthesize" =>
                    obs[c].calls[Len(obs[c].calls)] =
                        StageCall("synthesis", Head(task[c].sentences))

\* C31 witness: the completion answered with a blank reply and the first
\* span of the fallback sentence is being synthesized.
C31_Witness ==
    /\ task[1].pc = "synthesize"
    /\ obs[1].llm = "ok"
    /\ task[1].llm_response = FALLBACK_EMPTY
    /\ obs[1].calls[Len(obs[1].calls)] =
          StageCall("synthesis", "I'm having trouble responding right now.")

\* C32 as claimed: once the completion call of a pipeline has returned, the
\* stored history of the session ends with the user turn of the transcript
\* followed by the assistant turn of the reply that is then synthesized.
C32_PairAppended ==
    \A c \in Conns :
        task[c].pc \in {"send_tts", "synthesize", "send_bytes", "send_complete"} =>
            /\ task[c].session_id \in DOMAIN SESSION_CONTEXTS
            /\ LET history == History(task[c].session_id)
                   n == Len(history)
               IN  /\ n >= 2
                   /\ history[n - 1] = Turn("user", task[c].transcript)
                   /\ history[n] = Turn("assistant", task[c].llm_response)

\* C33: whatever profile the engine emitted, the normalization either
\* raises, and the pipeline is in its except clause, or returns a container
\* whose header and whose frames are mono, 16-bit, 16 kHz; more than two
\* channels are refused; the conversions applied are the needed ones of
\* channel downmix, bit-depth conversion and rate conversion, in that order.
C33_Normalized ==
    \A c \in Conns :
        obs[c].norm # NoNorm =>
            LET params == obs[c].norm.params
                result == obs[c].norm.result
                needed(step) ==
                    CASE step = "tomono" -> params.nchannels = 2
                      [] step = "lin2lin" -> params.sampwidth # 2
                      [] step = "ratecv" -> params.framerate # 16000
            IN  /\ (result.error # "") <=> (task[c].pc = "send_error")
                /\ params.nchannels > 2 => result.error # ""
                /\ result.error = "" =>
                      /\ result.header = Params(1, 2, 16000)
                      /\ result.frames = Params(1, 2, 16000)
                      /\ result.steps = SelectSeq(<<"tomono", "lin2lin", "ratecv">>, needed)

\* C33 witness: stereo 8-bit audio of 44.1 kHz went through the three
\* conversions and its container is being streamed.
C33_Witness ==
    /\ task[1].pc = "send_bytes"
    /\ obs[1].norm.params = Params(2, 1, 44100)
    /\ obs[1].norm.result.error = ""
    /\ obs[1].norm.result.steps = <<"tomono", "lin2lin", "ratecv">>
    /\ obs[1].norm.result.header = TargetParams

\* the fixed sentence the completion adapter returns for each failure
FallbackOf(kind) ==
    CASE kind = "ok" -> FALLBACK_EMPTY
      [] kind = "no_choices" -> FALLBACK_MALFORMED
      [] kind = "key_error" -> FALLBACK_MALFORMED
      [] kind = "http_status_error" -> FALLBACK_HTTP
      [] kind = "request_error" -> FALLBACK_REQUEST
      [] OTHER -> FALLBACK_OTHER

C35_BufferFound ==
    [][\A c \in Conns :
          /\ task[c].pc = "receive"
          /\ obs'[c] # obs[c]
          /\ obs'[c].last \in {"binary", "EOS", "EOS_empty", "RESET"}
          => task[c].session_id \in DOMAIN SESSION_AUDIO_BUFFERS]_vars

\* no handler is running: every connection has yet to come or has left
NoHandler == \A c \in Conns : task[c].pc \in {"idle", "closed"}

\* C36: whenever no handler is running, the registry of buffers, the stats
\* map and the context store are empty, also after connections that used the
\* same session id.
C36_NoLeak ==
    NoHandler =>
        /\ SESSION_AUDIO_BUFFERS = EmptyDict
        /\ SESSION_AUDIO_STATS = EmptyDict
        /\ SESSION_CONTEXTS = EmptyDict

\* C36 witness: two connections used the same id and each had an answered
\* utterance; the second one was closed for a missing entry; both handlers
\* are gone.
C36_Witness ==
    /\ NoHandler
    /\ task[1].pc = "closed" /\ task[2].pc = "closed"
    /\ task[1].session_id = "s1" /\ task[2].session_id = "s1"
    /\ obs[1].llm = "ok" /\ obs[1].nUtter = 1
    /\ obs[2].nUtter = 1
    /\ task[2].close_code = CLOSE_ERROR

\* no other connection has or had the session id of connection c
OwnId(c) == \A d \in Conns \ {c} : task[d].session_id # task[c].session_id

\* C37: for a connection whose session id no other connection uses, a step
\* of another connection (its handshake, a frame, a step of its pipeline, a
\* RESET, its teardown) leaves the buffer, the stats and the history under
\* that id as they are; the audio given to its transcription is the audio
\* of its own frames, and the window of its first completion request holds
\* its own user turn and no turn of another session.
C37_Isolated ==
    /\ [](\A c \in Conns :
             OwnId(c) =>
                 /\ task[c].pc = "transcribe" => obs[c].audio = obs[c].rcvd
                 /\ task[c].pc = "complete" /\ obs[c].nLlm = 1 =>
                       task[c].messages = <<Turn("system", SYSTEM_PROMPT),
                                            Turn("user", task[c].transcript)>>)
    /\ [][\A c \in Conns :
             /\ Live(c) /\ task[c].pc # "receive_handshake" /\ Quiet(c)
             /\ OwnId(c) /\ OwnId(c)'
             => LET sid == task[c].session_id IN
                /\ Held(SESSION_AUDIO_BUFFERS', sid) = Held(SESSION_AUDIO_BUFFERS, sid)
                /\ Held(SESSION_AUDIO_STATS', sid) = Held(SESSION_AUDIO_STATS, sid)
                /\ Held(SESSION_CONTEXTS', sid) = Held(SESSION_CONTEXTS, sid)]_vars

\* C37 witness: the second connection, on another id, had its utterance
\* and left; the audio of the first is at the transcription, untouched.
C37_Witness ==
    /\ task[2].pc = "closed" /\ task[2].session_id = "s2" /\ obs[2].nUtter = 1
    /\ task[1].pc = "transcribe" /\ task[1].session_id = "s1"
    /\ obs[1].audio = <<1>> /\ Buffer(1) = <<1>>

\* the places of a log that hold a terminal notice, complete or error
Terminals(log) == {k \in DOMAIN log : log[k].status \in {"complete", "error"}}

\* C38: while and after an EOS with audio is handled, at most one terminal
\* notice, complete or error, has been sent for it, and nothing was sent
\* after it; when the handler is back at its loop, exactly one was sent.
C38_OneTerminal ==
    \A c \in Conns :
        obs[c].last = "EOS" =>
            LET log == obs[c].sent IN
            /\ Cardinality(Terminals(log)) <= 1
            /\ \A k \in Terminals(log) : k = Len(log)
            /\ task[c].pc = "receive" => Cardinality(Terminals(log)) = 1

\* C38 witness: the audio of a first span was streamed, the synthesis of
\* the second raised, and the error notice ended the utterance.
C38_Witness ==
    /\ AfterPipeline(1) /\ ~gone[1]
    /\ \E k \in DOMAIN obs[1].sent : IsBinary(obs[1].sent[k])
    /\ obs[1].sent[Len(obs[1].sent)] = ErrorNotice("ValueError")
    /\ Count(obs[1].sent, "complete") = 0

====
